---- MODULE Spec2Model ----
(***************************************************************************)
(* Persistence layer of aiframe: the PostgreSQL event store                *)
(* (core/persistence/event-store.ts, class EventStore), the MongoDB event  *)
(* store (class MongoEventStore) and the migration runner                  *)
(* (core/persistence/migrations/runner.ts).                                *)
(*                                                                         *)
(* Every statement sent with pool.query is two steps: the pool hands an    *)
(* idle client to the query (or opens a new one when none is idle), and    *)
(* the statement then executes on that client's session and the client is  *)
(* released.  A session keeps its own transaction state between queries.   *)
(***************************************************************************)
EXTENDS Integers, Sequences, FiniteSets, TLC

\* ------------------------------------------------------------------------
\* Bounds
\* ------------------------------------------------------------------------
MaxCalls == 3       \* event-store calls started in one behaviour, made one at a time
MaxOverlap == 2     \* event-store calls started in one behaviour, overlapping
MaxBatch == 3       \* events in one append call, calls made one at a time
MaxOverlapBatch == 2 \* events in one append call, overlapping calls
MaxFrom == 2        \* largest fromVersion passed to read

\* ------------------------------------------------------------------------
\* Event store (PostgreSQL): state
\* ------------------------------------------------------------------------
Callers == {"p1", "p2"}
Clients == {"c1", "c2"}
NoClient == "none"
Streams == {"s1", "s2"}

VARIABLES
    isInitialized,   \* EventStore.isInitialized
    provisionRuns,   \* how many times the provisioning statements ran
    events,          \* committed rows of the events table
    txState,         \* per pool client: "none", "open" or "aborted" transaction
    txRows,          \* per pool client: rows inserted by its open transaction
    created,         \* clients the pool has opened
    held,            \* per caller: the client its statement in flight runs on
    pc,              \* per caller: position in append / read
    cur,             \* per caller: the call it is executing
    startVersion,    \* per caller: startVersion of append
    idx,             \* per caller: loop index i of append
    calls,           \* every call started so far, with its outcome
    eventsCollection \* MongoEventStore: documents of the events collection

pgVars == <<isInitialized, provisionRuns, events, txState, txRows, created, held>>

esVars == <<isInitialized, provisionRuns, events, txState, txRows, created,
            held, pc, cur, startVersion, idx, calls, eventsCollection>>

\* ------------------------------------------------------------------------
\* Migration runner: state
\* ------------------------------------------------------------------------
Migrations == {"m1", "m2", "m3"}
PoolUsers == {"runner", "other"}

VARIABLES
    mIsInitialized,     \* MigrationRunner.isInitialized
    files,              \* the migration files in the order readdir lists them
    records,            \* committed rows of the migrations table: [id, batch]
    schema,             \* migrations whose statements are in effect (committed)
    mTx,                \* per pool client: transaction state and its uncommitted changes
    mCreated,           \* clients the runner's pool has opened
    mHeld,              \* per pool user: the client its statement in flight runs on
    rpc,                \* position of the runner
    rop,                \* the operation the runner executes (or executed last)
    steps,              \* argument of down(steps)
    appliedMigrations,  \* appliedMigrations read at the start of the operation
    todo,               \* pendingMigrations / migrationsToRollback not yet processed
    latestBatch,        \* latestBatch of up()
    results,            \* results of the operation
    invoked,            \* ids whose up / down procedure the operation has invoked
    upOk,               \* ids whose up returned without error and were not rolled back since
    statusResult,       \* what status() returned last
    runs,               \* operations started so far
    entry,              \* the method the caller invoked: reset() continues in down()
    tableExists,        \* the metadata schema and table exist in the database
    dirExists           \* the migrations directory exists

migVars == <<mIsInitialized, files, records, schema, mTx, mCreated, mHeld, rpc, rop,
             steps, appliedMigrations, todo, latestBatch, results, invoked, upOk,
             statusResult, runs, entry, tableExists, dirExists>>

\* ------------------------------------------------------------------------
\* Entity adapters: state
\* ------------------------------------------------------------------------
AdapterKinds == {"postgres", "postgresOld", "sqlite"}
Keys == {"k1", "k2"}
Objects == {"objA", "objB"}   \* plain objects
Arrays == {"list"}            \* a JavaScript array
Values == Objects \cup Arrays
Null == "null"

VARIABLES
    adapter,        \* which adapter class the instance is
    aInitialized,   \* the adapter's isInitialized
    tableRows,      \* committed rows of the adapter's table: [key, data]
    txWrites,       \* per key: what the open transaction has written to it
    snapshot,       \* the committed rows when the transaction began
    apc,            \* "idle", or the position inside withTransaction
    pending,        \* the error caught by withTransaction, not yet delivered
    aLog,           \* the adapter calls completed so far, with their results
    txStart,        \* length of aLog when withTransaction was called
    acquired,       \* pool.connect() calls of the last withTransaction that returned a client
    released        \* client.release() calls of the last withTransaction

adVars == <<adapter, aInitialized, tableRows, txWrites, snapshot, apc, pending, aLog, txStart,
            acquired, released>>

\* ------------------------------------------------------------------------
\* Entity adapters side by side: state
\* ------------------------------------------------------------------------
\* the documents stored: objects with the fields type and age
Documents == {"user30", "admin30", "userText30", "userNoAge"}

VARIABLES
    stores,   \* per adapter class: the committed rows of its table
    qLast     \* the last call made on every adapter, with each adapter's result

qVars == <<stores, qLast>>

\* ------------------------------------------------------------------------
\* Adapter factory: state
\* ------------------------------------------------------------------------
Names == {"n1", "n2"}
\* config.type as the caller may pass it; "mongodb" is not a case of the switch
ConfigTypes == {"postgres", "sqlite", "mongodb"}
\* a configuration: its type and whether it has a filename
Configs == [type : ConfigTypes, filename : BOOLEAN]
Undefined == 0

VARIABLES
    instances,     \* PersistenceFactory.instances: the entries [name, id] in insertion order
    constructed,   \* the adapters constructed so far; an adapter's id is its index
    fpc,           \* "idle", or the await the running factory call is at
    fcur,          \* the running factory call
    fLast,         \* the last factory call that returned, with what it returned
    fCalls         \* factory calls started

facVars == <<instances, constructed, fpc, fcur, fLast, fCalls>>

\* ------------------------------------------------------------------------
\* Lazy provisioning of an entity adapter under overlapping calls: state
\* ------------------------------------------------------------------------
VARIABLES
    opc,          \* per caller: "idle", or the await its adapter call is at
    provisions,   \* how many times the adapter's provisioning statements ran
    opsStarted    \* adapter calls started

provVars == <<opc, provisions, opsStarted>>

\* ------------------------------------------------------------------------
\* Snapshots of the event store: state
\* ------------------------------------------------------------------------
VARIABLES
    snapshots,   \* rows of the snapshots table: [stream, version, state, created_at]
    clock,       \* CURRENT_TIMESTAMP of the database
    lastSaved,   \* per stream: the snapshot of the last saveSnapshot call that resolved
    sLast,       \* the last snapshot call, with what it returned
    sCalls       \* snapshot calls made

snapVars == <<snapshots, clock, lastSaved, sLast, sCalls>>

\* ------------------------------------------------------------------------
\* Entity records with their timestamps: state
\* ------------------------------------------------------------------------
VARIABLES
    tAdapter,    \* the adapter class of the instance, "none" before construction
    tNow,        \* the clock of the database
    tRows,       \* per key: the committed row's created_at and updated_at
    tTx,         \* the open transaction: its start time and its writes
    tOutside,    \* keys written through the pool since the transaction began
    tLast,       \* the last save, with updated_at of the row before and after
    tOps         \* calls made

timeVars == <<tAdapter, tNow, tRows, tTx, tOutside, tLast, tOps>>

\* ------------------------------------------------------------------------
\* PostgresAdapter.disconnect: state
\* ------------------------------------------------------------------------
VARIABLES
    dPool,       \* this.pool: "open", "ending" after pool.end(), "gone" once undefined
    dClients,    \* per pool client: "closed", "idle" or "busy" (checked out)
    dHung,       \* the connections whose server no longer answers
    dpc,         \* position of disconnect()
    dHeld,       \* the client disconnect() holds
    dCalls       \* disconnect() calls made

discVars == <<dPool, dClients, dHung, dpc, dHeld, dCalls>>

lateVars == <<timeVars, discVars>>

restVars == <<qVars, facVars, provVars, snapVars, lateVars>>

vars == <<esVars, migVars, adVars, restVars>>

IdleCall == [op |-> "none", stream |-> "s1", n |-> 0, bad |-> 0, from |-> 0, id |-> 0]

InitES ==
    /\ isInitialized = FALSE
    /\ provisionRuns = 0
    /\ events = {}
    /\ txState = [c \in Clients |-> "none"]
    /\ txRows = [c \in Clients |-> {}]
    /\ created = {}
    /\ held = [p \in Callers |-> NoClient]
    /\ pc = [p \in Callers |-> "idle"]
    /\ cur = [p \in Callers |-> IdleCall]
    /\ startVersion = [p \in Callers |-> 0]
    /\ idx = [p \in Callers |-> 0]
    /\ calls = <<>>
    /\ eventsCollection = {}

NoTx == [state |-> "none", recAdd |-> {}, recDel |-> {}, schAdd |-> {}, schDel |-> {}]

InitRunner ==
    /\ mIsInitialized = FALSE
    /\ records = {}
    /\ schema = {}
    /\ mTx = [c \in Clients |-> NoTx]
    /\ mCreated = {}
    /\ mHeld = [u \in PoolUsers |-> NoClient]
    /\ rpc = "idle"
    /\ rop = "none"
    /\ steps = 0
    /\ appliedMigrations = <<>>
    /\ todo = <<>>
    /\ latestBatch = 0
    /\ results = <<>>
    /\ invoked = <<>>
    /\ upOk = {}
    /\ statusResult = [applied |-> <<>>, pending |-> <<>>]
    /\ runs = 0
    /\ entry = "none"

\* readdir lists the files in name order
InitMigIdle ==
    /\ InitRunner
    /\ tableExists = FALSE
    /\ dirExists = TRUE
    /\ files = <<"m1", "m2", "m3">>

\* readdir may list the files in any order
DiscoveryOrders ==
    {f \in [1..Cardinality(Migrations) -> Migrations] :
        \A j, k \in 1..Cardinality(Migrations) : j # k => f[j] # f[k]}

\* the database may or may not hold the metadata table yet, the migrations
\* directory may or may not exist yet (it then has no files)
InitMig ==
    /\ InitRunner
    /\ tableExists \in BOOLEAN
    /\ dirExists \in BOOLEAN
    /\ files \in (IF dirExists THEN DiscoveryOrders ELSE {<<>>})

\* what a transaction holds for a key it has not written
Unwritten == [format |-> "none", of |-> "unwritten"]
\* what a transaction holds for a key it has deleted
Deleted == [format |-> "none", of |-> "deleted"]

\* JSON.stringify(data): the JSON text of the value
JsonStringify(v) == [format |-> "json", of |-> v]

InitAdapter ==
    /\ aInitialized = FALSE
    /\ txWrites = [k \in Keys |-> Unwritten]
    /\ snapshot = {}
    /\ apc = "idle"
    /\ pending = "none"
    /\ aLog = <<>>
    /\ txStart = 0
    /\ acquired = 0
    /\ released = 0

\* a PostgresAdapter over an empty table
InitAdIdle == InitAdapter /\ adapter = "postgres" /\ tableRows = {}

\* the tables an adapter may find: any set of keys (at most one row per key,
\* PRIMARY KEY), each holding the JSON text of an object
StoredTables == {[key : ks, data : {JsonStringify("objA")}] : ks \in SUBSET Keys}

\* an adapter of any class over a table left by earlier use
InitAd == InitAdapter /\ adapter \in AdapterKinds /\ tableRows \in StoredTables

\* the adapters side by side, each over an empty table, before any call
NoCall == [op |-> "none", key |-> "none", doc |-> "none", filter |-> "none",
           ret |-> [kind \in AdapterKinds |-> "none"]]

InitStores ==
    /\ stores = [kind \in AdapterKinds |-> {}]
    /\ qLast = NoCall

\* no factory call is running
NoFactoryCall == [op |-> "none", name |-> "none", todo |-> <<>>, before |-> <<>>, built |-> 0]

\* the static registry is empty when the module is loaded
InitFactory ==
    /\ instances = <<>>
    /\ constructed = <<>>
    /\ fpc = "idle"
    /\ fcur = NoFactoryCall
    /\ fLast = [op |-> "none", name |-> "none", config |-> [type |-> "none", filename |-> FALSE],
                ret |-> Undefined, error |-> "none", before |-> <<>>, built |-> 0]
    /\ fCalls = 0

\* no adapter call has been made
InitProvisioning ==
    /\ opc = [p \in Callers |-> [op |-> "none", key |-> "none", value |-> "none", at |-> "idle"]]
    /\ provisions = 0
    /\ opsStarted = 0

\* what getSnapshot returns without a row, and what lastSaved holds for a
\* stream no snapshot was saved for
NoSnapshot == [found |-> FALSE, state |-> Null, version |-> 0, timestamp |-> Undefined]

\* the snapshots table is empty
InitSnapshots ==
    /\ snapshots = {}
    /\ clock = 1
    /\ lastSaved = [s \in Streams |-> NoSnapshot]
    /\ sLast = [op |-> "none", stream |-> "none", arg |-> NoSnapshot, ret |-> NoSnapshot,
                error |-> "none", at |-> 0]
    /\ sCalls = 0

\* no row: the key is absent from the table
NoRow == [present |-> FALSE, created_at |-> 0, updated_at |-> 0]

NoTimedTx == [open |-> FALSE, start |-> 0, writes |-> [k \in Keys |-> NoRow],
              written |-> {}]

\* before the adapter is constructed; the table is empty
InitTimestamps ==
    /\ tAdapter = "none"
    /\ tNow = 1
    /\ tRows = [k \in Keys |-> NoRow]
    /\ tTx = NoTimedTx
    /\ tOutside = {}
    /\ tLast = [op |-> "none", key |-> "none", existed |-> FALSE, before |-> 0, after |-> 0,
                viaClient |-> FALSE]
    /\ tOps = 0

\* a new PostgresAdapter: the pool has opened no connection
InitDisconnect ==
    /\ dPool = "open"
    /\ dClients = [c \in Clients |-> "closed"]
    /\ dHung = {}
    /\ dpc = "idle"
    /\ dHeld = NoClient
    /\ dCalls = 0

InitLate == InitTimestamps /\ InitDisconnect

InitRest == InitStores /\ InitFactory /\ InitProvisioning /\ InitSnapshots /\ InitLate

\* a fresh event store; the runner is constructed with its files in name order
Init == InitES /\ InitMigIdle /\ InitAdIdle /\ InitRest

\* a fresh runner over a directory listed in any order
InitMigrations == InitES /\ InitMig /\ InitAdIdle /\ InitRest

\* an entity adapter
InitAdapters == InitES /\ InitMigIdle /\ InitAd /\ InitRest

\* an event store and an entity adapter of either current class
InitWrappers ==
    /\ InitES
    /\ InitMigIdle
    /\ InitAdapter
    /\ adapter \in {"postgres", "sqlite"}
    /\ tableRows = {}
    /\ InitRest

\* ------------------------------------------------------------------------
\* pg.Pool: pool.query / pool.connect take an idle client, or open one
\* ------------------------------------------------------------------------
IdleClients == created \ {held[p] : p \in Callers}

NewClient == IF "c1" \notin created THEN "c1" ELSE "c2"

Acquire(p, c) ==
    /\ held[p] = NoClient
    /\ IF IdleClients # {}
          THEN c \in IdleClients /\ created' = created
          ELSE created # Clients /\ c = NewClient /\ created' = created \cup {c}
    /\ held' = [held EXCEPT ![p] = c]

Release(p) == held' = [held EXCEPT ![p] = NoClient]

\* ------------------------------------------------------------------------
\* The events table as one session sees it (READ COMMITTED)
\* ------------------------------------------------------------------------
Visible(c) == events \cup (IF txState[c] = "open" THEN txRows[c] ELSE {})

StreamRows(rows, s) == {r \in rows : r.stream = s}

\* variant: COALESCE(MAX(version), 0), a fresh stream is taken to hold version 0
MaxVersion_Zero(rows, s) ==
    IF StreamRows(rows, s) = {} THEN 0
    ELSE CHOOSE v \in {r.version : r \in StreamRows(rows, s)} :
             \A r \in StreamRows(rows, s) : r.version <= v

\* SELECT COALESCE(MAX(version), -1) ... WHERE stream_id = $1
MaxVersion(rows, s) ==
    IF StreamRows(rows, s) = {} THEN -1
    ELSE CHOOSE v \in {r.version : r \in StreamRows(rows, s)} :
             \A r \in StreamRows(rows, s) : r.version <= v

\* UNIQUE(stream_id, version)
Conflicts(rows, s, v) == \E r \in rows : r.stream = s /\ r.version = v

\* another session holds an uncommitted row with the same unique key
BlockedBy(c, s, v) == \E d \in Clients \ {c} : Conflicts(txRows[d], s, v)

\* ------------------------------------------------------------------------
\* Finishing a call
\* ------------------------------------------------------------------------
Finish(p, status, rows) ==
    /\ calls' = [calls EXCEPT ![cur[p].id].status = status, ![cur[p].id].rows = rows]
    /\ pc' = [pc EXCEPT ![p] = "idle"]
    /\ cur' = [cur EXCEPT ![p] = IdleCall]
    /\ startVersion' = [startVersion EXCEPT ![p] = 0]
    /\ idx' = [idx EXCEPT ![p] = 0]

NewCallRecord(op, s, n, bad, from, table) ==
    [op |-> op, stream |-> s, n |-> n, bad |-> bad, from |-> from,
     status |-> "running", rows |-> <<>>,
     m |-> Cardinality(StreamRows(table, s))]

\* ------------------------------------------------------------------------
\* EventStore.append
\* ------------------------------------------------------------------------
\* a caller enters append(streamId, events); bad = k > 0 means the k-th event
\* of the array is one the table rejects (a NOT NULL column left null)
StartAppend(p, s, n, bad) ==
    /\ pc[p] = "idle"
    /\ calls' = Append(calls, NewCallRecord("append", s, n, bad, 0, events))
    /\ cur' = [cur EXCEPT ![p] = [op |-> "append", stream |-> s, n |-> n,
                                  bad |-> bad, from |-> 0, id |-> Len(calls) + 1]]
    /\ pc' = [pc EXCEPT ![p] = "init"]
    /\ UNCHANGED <<eventsCollection, migVars, adVars, restVars, isInitialized, provisionRuns, events, txState, txRows,
                   created, held, startVersion, idx>>

FirstQuery(p) == IF cur[p].op = "append" THEN "read" ELSE "select"

\* initialize(): returns at once when the flag is set, else connects
InitializeEnter(p) ==
    /\ pc[p] = "init"
    /\ IF isInitialized
          THEN /\ pc' = [pc EXCEPT ![p] = FirstQuery(p)]
               /\ UNCHANGED <<created, held>>
          ELSE /\ \E c \in Clients : Acquire(p, c)
               /\ pc' = [pc EXCEPT ![p] = "ddl"]
    /\ UNCHANGED <<eventsCollection, migVars, adVars, restVars, isInitialized, provisionRuns, events, txState, txRows,
                   cur, startVersion, idx, calls>>

\* initialize(): CREATE SCHEMA / TABLE / INDEX IF NOT EXISTS, set the flag,
\* release the client in the finally block
InitializeRun(p) ==
    /\ pc[p] = "ddl"
    /\ held[p] # NoClient
    /\ Release(p)
    /\ IF txState[held[p]] = "aborted"
          THEN /\ Finish(p, "error", <<>>)
               /\ UNCHANGED <<isInitialized, provisionRuns>>
          ELSE /\ isInitialized' = TRUE
               /\ provisionRuns' = provisionRuns + 1
               /\ pc' = [pc EXCEPT ![p] = FirstQuery(p)]
               /\ UNCHANGED <<cur, startVersion, idx, calls>>
    /\ UNCHANGED <<eventsCollection, migVars, adVars, restVars, events, txState, txRows, created>>

QueryPcs == {"read", "begin", "insert", "commit", "rollback", "select"}

\* this.pool.query(...): the pool picks the client the statement runs on
PoolQuery(p) ==
    /\ pc[p] \in QueryPcs
    /\ \E c \in Clients : Acquire(p, c)
    /\ UNCHANGED <<eventsCollection, migVars, adVars, restVars, isInitialized, provisionRuns, events, txState, txRows,
                   pc, cur, startVersion, idx, calls>>

\* SELECT COALESCE(MAX(version), -1): startVersion = max_version + 1
ReadMaxVersion(p) ==
    /\ pc[p] = "read"
    /\ held[p] # NoClient
    /\ Release(p)
    /\ IF txState[held[p]] = "aborted"
          THEN Finish(p, "error", <<>>)
          ELSE /\ startVersion' = [startVersion EXCEPT ![p] =
                      MaxVersion(Visible(held[p]), cur[p].stream) + 1]
               /\ pc' = [pc EXCEPT ![p] = "begin"]
               /\ UNCHANGED <<cur, idx, calls>>
    /\ UNCHANGED <<eventsCollection, migVars, adVars, restVars, isInitialized, provisionRuns, events, txState, txRows, created>>

\* BEGIN
Begin(p) ==
    /\ pc[p] = "begin"
    /\ held[p] # NoClient
    /\ Release(p)
    /\ IF txState[held[p]] = "aborted"
          THEN /\ Finish(p, "error", <<>>)
               /\ UNCHANGED txState
          ELSE /\ txState' = [txState EXCEPT ![held[p]] = "open"]
               /\ pc' = [pc EXCEPT ![p] = IF cur[p].n = 0 THEN "commit" ELSE "insert"]
               /\ idx' = [idx EXCEPT ![p] = 0]
               /\ UNCHANGED <<cur, startVersion, calls>>
    /\ UNCHANGED <<eventsCollection, migVars, adVars, restVars, isInitialized, provisionRuns, events, txRows, created>>

\* version = startVersion + i
VersionOf(start, i) == start + i

EventRow(p) ==
    [stream |-> cur[p].stream, version |-> VersionOf(startVersion[p], idx[p]),
     call |-> cur[p].id, i |-> idx[p]]

\* INSERT INTO events ... ; a failure goes to the catch block
Insert(p) ==
    LET c == held[p]
        r == EventRow(p)
        fails == \/ txState[c] = "aborted"
                 \/ cur[p].bad = idx[p] + 1
                 \/ Conflicts(Visible(c), r.stream, r.version)
    IN  /\ pc[p] = "insert"
        /\ c # NoClient
        /\ ~BlockedBy(c, r.stream, r.version)
        /\ Release(p)
        /\ IF fails
              THEN /\ txState' = [txState EXCEPT ![c] =
                          IF txState[c] = "none" THEN "none" ELSE "aborted"]
                   /\ pc' = [pc EXCEPT ![p] = "rollback"]
                   /\ UNCHANGED <<events, txRows, idx>>
              ELSE /\ IF txState[c] = "open"
                         THEN /\ txRows' = [txRows EXCEPT ![c] = @ \cup {r}]
                              /\ UNCHANGED events
                         ELSE /\ events' = events \cup {r}
                              /\ UNCHANGED txRows
                   /\ idx' = [idx EXCEPT ![p] = @ + 1]
                   /\ pc' = [pc EXCEPT ![p] =
                          IF idx[p] + 1 < cur[p].n THEN "insert" ELSE "commit"]
                   /\ UNCHANGED txState
        /\ UNCHANGED <<eventsCollection, migVars, adVars, restVars, isInitialized, provisionRuns, created, cur, startVersion, calls>>

\* what COMMIT does to the session it runs on
CommitRows(c) == IF txState[c] = "open" THEN events \cup txRows[c] ELSE events

\* COMMIT; append returns
Commit(p) ==
    /\ pc[p] = "commit"
    /\ held[p] # NoClient
    /\ Release(p)
    /\ events' = CommitRows(held[p])
    /\ txState' = [txState EXCEPT ![held[p]] = "none"]
    /\ txRows' = [txRows EXCEPT ![held[p]] = {}]
    /\ Finish(p, "ok", <<>>)
    /\ UNCHANGED <<eventsCollection, migVars, adVars, restVars, isInitialized, provisionRuns, created>>

\* ROLLBACK; throw error
Rollback(p) ==
    /\ pc[p] = "rollback"
    /\ held[p] # NoClient
    /\ Release(p)
    /\ txState' = [txState EXCEPT ![held[p]] = "none"]
    /\ txRows' = [txRows EXCEPT ![held[p]] = {}]
    /\ Finish(p, "error", <<>>)
    /\ UNCHANGED <<eventsCollection, migVars, adVars, restVars, isInitialized, provisionRuns, events, created>>

\* ROLLBACK fails (the connection is gone, and with it the session's
\* transaction): the await in the catch block throws, and append rejects
\* with the error of ROLLBACK instead of reaching throw error
RollbackFailed(p) ==
    /\ pc[p] = "rollback"
    /\ held[p] # NoClient
    /\ Release(p)
    /\ txState' = [txState EXCEPT ![held[p]] = "none"]
    /\ txRows' = [txRows EXCEPT ![held[p]] = {}]
    /\ Finish(p, "rollbackError", <<>>)
    /\ UNCHANGED <<eventsCollection, migVars, adVars, restVars, isInitialized, provisionRuns, events, created>>

\* ------------------------------------------------------------------------
\* EventStore.read
\* ------------------------------------------------------------------------
StartRead(p, s, from) ==
    /\ pc[p] = "idle"
    /\ calls' = Append(calls, NewCallRecord("read", s, 0, 0, from, events))
    /\ cur' = [cur EXCEPT ![p] = [op |-> "read", stream |-> s, n |-> 0,
                                  bad |-> 0, from |-> from, id |-> Len(calls) + 1]]
    /\ pc' = [pc EXCEPT ![p] = "init"]
    /\ UNCHANGED <<eventsCollection, migVars, adVars, restVars, isInitialized, provisionRuns, events, txState, txRows,
                   created, held, startVersion, idx>>

\* variant: version > $2
ReadFilter_Strict(rows, s, from) == {r \in rows : r.stream = s /\ r.version > from}

\* WHERE stream_id = $1 AND version >= $2
ReadFilter(rows, s, from) == {r \in rows : r.stream = s /\ r.version >= from}

RECURSIVE OrderByVersion(_)
\* ORDER BY version ASC
OrderByVersion(rows) ==
    IF rows = {} THEN <<>>
    ELSE LET first == CHOOSE r \in rows : \A q \in rows : r.version <= q.version
         IN  <<first>> \o OrderByVersion(rows \ {first})

\* result.rows.map(row => ({type, data, metadata}))
RowToEvent(r) == [call |-> r.call, i |-> r.i, version |-> r.version]

ReadRows(rows, s, from) ==
    LET sorted == OrderByVersion(ReadFilter(rows, s, from))
    IN  [k \in 1..Len(sorted) |-> RowToEvent(sorted[k])]

Select(p) ==
    /\ pc[p] = "select"
    /\ held[p] # NoClient
    /\ Release(p)
    /\ IF txState[held[p]] = "aborted"
          THEN Finish(p, "error", <<>>)
          ELSE Finish(p, "ok", ReadRows(Visible(held[p]), cur[p].stream, cur[p].from))
    /\ UNCHANGED <<eventsCollection, migVars, adVars, restVars, isInitialized, provisionRuns, events, txState, txRows, created>>

\* ------------------------------------------------------------------------
\* MongoEventStore.append
\* ------------------------------------------------------------------------
MongoStartAppend(p, s, n) ==
    /\ pc[p] = "idle"
    /\ Len(calls) < MaxOverlap
    /\ calls' = Append(calls, NewCallRecord("append", s, n, 0, 0, eventsCollection))
    /\ cur' = [cur EXCEPT ![p] = [op |-> "append", stream |-> s, n |-> n,
                                  bad |-> 0, from |-> 0, id |-> Len(calls) + 1]]
    /\ pc' = [pc EXCEPT ![p] = "find"]
    /\ UNCHANGED <<pgVars, migVars, adVars, restVars, startVersion, idx, eventsCollection>>

\* find({streamId}).sort({version: -1}).limit(1): the documents carry their
\* version in metadata.version and have no top-level version field, so the
\* sort key is missing in every document and any document of the stream can
\* come first
LastEvent(docs, s) == StreamRows(docs, s)

\* startVersion = lastEvent.length ? lastEvent[0].metadata.version + 1 : 0
MongoFind(p) ==
    /\ pc[p] = "find"
    /\ IF StreamRows(eventsCollection, cur[p].stream) = {}
          THEN startVersion' = [startVersion EXCEPT ![p] = 0]
          ELSE \E last \in LastEvent(eventsCollection, cur[p].stream) :
                   startVersion' = [startVersion EXCEPT ![p] = last.version + 1]
    /\ pc' = [pc EXCEPT ![p] = "insertMany"]
    /\ UNCHANGED <<pgVars, migVars, adVars, restVars, cur, idx, calls, eventsCollection>>

\* events.map((event, index) => ({..., version: startVersion + index}))
EventsToInsert(p) ==
    {[stream |-> cur[p].stream, version |-> VersionOf(startVersion[p], k),
      call |-> cur[p].id, i |-> k] : k \in 0..(cur[p].n - 1)}

\* insertMany(eventsToInsert); the index on the collection is not unique
MongoInsertMany(p) ==
    /\ pc[p] = "insertMany"
    /\ eventsCollection' = eventsCollection \cup EventsToInsert(p)
    /\ Finish(p, "ok", <<>>)
    /\ UNCHANGED <<pgVars, migVars, adVars, restVars>>

NextMongo ==
    \E p \in Callers :
        \/ \E s \in Streams, n \in 1..MaxOverlapBatch : MongoStartAppend(p, s, n)
        \/ MongoFind(p)
        \/ MongoInsertMany(p)

SpecMongo == Init /\ [][NextMongo]_vars

\* ------------------------------------------------------------------------
\* Specifications of the event store
\* ------------------------------------------------------------------------
AllIdle == \A p \in Callers : pc[p] = "idle"

StepPg(p) ==
    \/ InitializeEnter(p)
    \/ InitializeRun(p)
    \/ PoolQuery(p)
    \/ ReadMaxVersion(p)
    \/ Begin(p)
    \/ Insert(p)
    \/ Commit(p)
    \/ Rollback(p)

\* callers overlap: a call may start while another is suspended at an await
NextES ==
    \E p \in Callers :
        \/ /\ Len(calls) < MaxOverlap
           /\ \E s \in Streams, n \in 1..MaxOverlapBatch : \E bad \in 0..n : StartAppend(p, s, n, bad)
        \/ StepPg(p)

SpecES == Init /\ [][NextES]_vars

\* one call at a time: each call is awaited before the next is made
NextSeq ==
    \E p \in Callers :
        \/ /\ AllIdle /\ Len(calls) < MaxCalls
           /\ \E s \in Streams, n \in 1..MaxBatch : \E bad \in 0..n : StartAppend(p, s, n, bad)
        \/ /\ AllIdle /\ Len(calls) < MaxCalls
           /\ \E s \in Streams, from \in 0..MaxFrom : StartRead(p, s, from)
        \/ StepPg(p)
        \/ Select(p)

SpecSeq == Init /\ [][NextSeq]_vars

\* ------------------------------------------------------------------------
\* Properties of the event store
\* ------------------------------------------------------------------------
Versions(rows, s) == {r.version : r \in StreamRows(rows, s)}

Contiguous(rows, s) ==
    /\ Versions(rows, s) = 0..(Cardinality(Versions(rows, s)) - 1)
    /\ Cardinality(StreamRows(rows, s)) = Cardinality(Versions(rows, s))

\* C1: once every append call has returned, the versions stored for each
\* stream are exactly 0..n-1 for some n: no gap, no duplicate, starting at 0.
C1_VersionsContiguous == AllIdle => \A s \in Streams : Contiguous(events, s)

\* C2: two append calls to the same stream that interleave at their awaits
\* never leave two events of the stream with the same version.
C2_NoDuplicateVersions ==
    \A r1, r2 \in eventsCollection :
        (r1.stream = r2.stream /\ r1.version = r2.version) => r1 = r2

ReadDone(p) == cur[p].op = "append" /\ pc[p] \in {"begin", "insert", "commit", "rollback"}
TxnBegun(p) == cur[p].op = "append" /\ pc[p] \in {"insert", "commit", "rollback"}

\* C3: an appender that has read the stream's maximum version has already
\* begun its transaction, and two appenders to the same stream that are both
\* past the read never hold the same startVersion.
C3_ReadInsideTransaction ==
    /\ \A p \in Callers : ReadDone(p) => TxnBegun(p)
    /\ \A p, q \in Callers :
           (p # q /\ ReadDone(p) /\ ReadDone(q) /\ cur[p].stream = cur[q].stream)
               => startVersion[p] # startVersion[q]

RowsOfCall(rows, k) == {r \in rows : r.call = k}

\* C4: at every state the committed table holds all of an append call's
\* events or none of them, and none once the call has failed.
C4_AppendAtomic ==
    \A k \in 1..Len(calls) :
        calls[k].op = "append" =>
            /\ Cardinality(RowsOfCall(events, k)) \in {0, calls[k].n}
            /\ calls[k].status = "error" => RowsOfCall(events, k) = {}

\* C5: the i-th event (0-based) of an append to a stream that held m events
\* when the call was made is stored with version m + i.
C5_VersionAssignment ==
    \A r \in events : r.version = calls[r.call].m + r.i

C5_Witness ==
    \E r \in events : calls[r.call].m = 3 /\ r.version = 3 /\ calls[r.call].status = "ok"

LastCall == calls[Len(calls)]

ReadReturned ==
    /\ AllIdle
    /\ Len(calls) > 0
    /\ LastCall.op = "read"
    /\ LastCall.status = "ok"

\* C6: read(streamId, fromVersion) returns exactly the stream's events with
\* version >= fromVersion, each once, in ascending version order; with
\* fromVersion = s + 1 these are exactly the events with version > s.
C6_ReadFromVersion ==
    ReadReturned =>
        LET res == LastCall.rows
            want == {r \in events : r.stream = LastCall.stream /\ ~(r.version < LastCall.from)}
        IN  /\ {<<res[k].call, res[k].i, res[k].version>> : k \in 1..Len(res)}
                 = {<<r.call, r.i, r.version>> : r \in want}
            /\ Len(res) = Cardinality(want)
            /\ \A j, k \in 1..Len(res) : j < k => res[j].version < res[k].version
            /\ \A s \in 0..MaxFrom :
                   LastCall.from = s + 1 =>
                       {res[k].version : k \in 1..Len(res)}
                           = {v \in Versions(events, LastCall.stream) : v > s}

C6_Witness ==
    /\ ReadReturned
    /\ LastCall.from = 1
    /\ Len(LastCall.rows) = 1
    /\ Cardinality(StreamRows(events, LastCall.stream)) = 2

\* ------------------------------------------------------------------------
\* Migration runner: the pool and the database sessions
\* ------------------------------------------------------------------------
MaxRuns == 4        \* runner operations started in one behaviour
MaxSteps == 2       \* largest steps passed to down
MaxSharedRuns == 2  \* up() calls started in one behaviour on a shared pool

Timestamp(m) == CASE m = "m1" -> 1 [] m = "m2" -> 2 [] OTHER -> 3

MIdleClients == mCreated \ {mHeld[u] : u \in PoolUsers}

MNewClient == IF "c1" \notin mCreated THEN "c1" ELSE "c2"

MAcquire(u, c) ==
    /\ mHeld[u] = NoClient
    /\ IF MIdleClients # {}
          THEN c \in MIdleClients /\ mCreated' = mCreated
          ELSE mCreated # Clients /\ c = MNewClient /\ mCreated' = mCreated \cup {c}
    /\ mHeld' = [mHeld EXCEPT ![u] = c]

MRelease(u) == mHeld' = [mHeld EXCEPT ![u] = NoClient]

\* the tables as the session of client c sees them
VisibleRecords(c) ==
    IF mTx[c].state = "open"
       THEN {r \in records : r.id \notin mTx[c].recDel} \cup mTx[c].recAdd
       ELSE records

VisibleSchema(c) ==
    IF mTx[c].state = "open"
       THEN (schema \ mTx[c].schDel) \cup mTx[c].schAdd
       ELSE schema

RecordIds(rows) == {r.id : r \in rows}

\* another session has an uncommitted change of the same row / object
RecordLocked(c, m) ==
    \E d \in Clients \ {c} : m \in RecordIds(mTx[d].recAdd) \cup mTx[d].recDel

SchemaLocked(c, m) ==
    \E d \in Clients \ {c} : m \in mTx[d].schAdd \cup mTx[d].schDel

\* a statement that fails inside a transaction block aborts the block
AfterError(t) == IF t.state = "none" THEN t ELSE [t EXCEPT !.state = "aborted"]

\* COMMIT: an open block takes effect, an aborted one is discarded
CommittedRecords(c) == IF mTx[c].state = "open" THEN VisibleRecords(c) ELSE records
CommittedSchema(c) == IF mTx[c].state = "open" THEN VisibleSchema(c) ELSE schema

\* ------------------------------------------------------------------------
\* MigrationRunner.loadMigrations / getAppliedMigrations
\* ------------------------------------------------------------------------
RECURSIVE InsertByTimestamp(_, _)
InsertByTimestamp(m, seq) ==
    IF seq = <<>> THEN <<m>>
    ELSE IF Timestamp(m) < Timestamp(Head(seq)) THEN <<m>> \o seq
    ELSE <<Head(seq)>> \o InsertByTimestamp(m, Tail(seq))

RECURSIVE SortByTimestamp(_)
\* migrations.sort((a, b) => a.timestamp - b.timestamp)
SortByTimestamp(seq) ==
    IF seq = <<>> THEN <<>>
    ELSE InsertByTimestamp(seq[Len(seq)], SortByTimestamp(SubSeq(seq, 1, Len(seq) - 1)))

\* variant: the files are returned in the order readdir listed them
LoadMigrations_Unsorted == files

LoadMigrations == SortByTimestamp(files)

RECURSIVE OrderRecords(_)
\* SELECT ... ORDER BY timestamp ASC
OrderRecords(rows) ==
    IF rows = {} THEN <<>>
    ELSE LET first == CHOOSE r \in rows : \A q \in rows : Timestamp(r.id) <= Timestamp(q.id)
         IN  <<first>> \o OrderRecords(rows \ {first})

SeqIds(seq) == {seq[k].id : k \in 1..Len(seq)}

\* variant: every loaded migration is taken as pending
Pending_All(applied) == LoadMigrations

\* migrations.filter(migration => !appliedMigrations.find(am => am.id === migration.id))
Pending(applied) ==
    LET IsPending(m) == m \notin SeqIds(applied)
    IN  SelectSeq(LoadMigrations, IsPending)

\* variant: the batches already recorded are not looked at
LatestBatch_Zero(applied) == 0

\* appliedMigrations.length > 0 ? Math.max(...batches) : 0
LatestBatch(applied) ==
    IF Len(applied) = 0 THEN 0
    ELSE CHOOSE b \in {applied[k].batch : k \in 1..Len(applied)} :
             \A k \in 1..Len(applied) : applied[k].batch <= b

\* Array.prototype.slice(-n): the last n elements, and the whole array for n = 0
SliceLast(seq, n) ==
    IF n = 0 \/ n >= Len(seq) THEN seq ELSE SubSeq(seq, Len(seq) - n + 1, Len(seq))

\* variant: the slice is rolled back in the order it was applied
Reverse_Keep(seq) == seq

\* Array.prototype.reverse()
Reverse(seq) == [k \in 1..Len(seq) |-> seq[Len(seq) + 1 - k]]

\* appliedMigrations.filter(m => m.batch === latestBatch).slice(-steps).reverse()
\* (Math.max of no batches is -Infinity and matches no record)
ToRollback(applied, n) ==
    LET InLatest(r) == r.batch = LatestBatch(applied)
        chosen == Reverse(SliceLast(SelectSeq(applied, InLatest), n))
    IN  [k \in 1..Len(chosen) |-> chosen[k].id]

\* variant: a record without a loaded migration is processed like the others
Discoverable_All(ids) == ids

\* const migration = migrations.find(m => m.id === record.id);
\* if (!migration) continue;
Discoverable(ids) ==
    LET IsLoaded(m) == \E k \in 1..Len(LoadMigrations) : LoadMigrations[k] = m
    IN  SelectSeq(ids, IsLoaded)

\* ------------------------------------------------------------------------
\* MigrationRunner: up, down, reset, status
\* ------------------------------------------------------------------------
StartOp(op, n) ==
    /\ rpc = "idle"
    /\ runs < MaxRuns
    /\ runs' = runs + 1
    /\ entry' = op
    /\ rop' = op
    /\ steps' = n
    /\ rpc' = "init"
    /\ results' = <<>>
    /\ invoked' = <<>>
    /\ todo' = <<>>
    /\ UNCHANGED <<esVars, adVars, restVars, mIsInitialized, files, records, schema, mTx, mCreated, mHeld,
                   appliedMigrations, latestBatch, upOk, statusResult,
                   tableExists, dirExists>>

Up == StartOp("up", 0)
Down(n) == StartOp("down", n)
Reset == StartOp("reset", 0)
Status == StartOp("status", 0)

\* initialize(): returns at once when the flag is set, else connects
RunnerInitialize ==
    /\ rpc = "init"
    /\ IF mIsInitialized
          THEN /\ rpc' = "applied"
               /\ UNCHANGED <<mCreated, mHeld>>
          ELSE /\ \E c \in Clients : MAcquire("runner", c)
               /\ rpc' = "ddl"
    /\ UNCHANGED <<esVars, adVars, restVars, mIsInitialized, files, records, schema, mTx, rop, steps,
                   appliedMigrations, todo, latestBatch, results, invoked, upOk,
                   statusResult, runs, entry,
                   tableExists, dirExists>>

\* initialize(): CREATE SCHEMA / TABLE IF NOT EXISTS, set the flag, release
RunnerProvision ==
    /\ rpc = "ddl"
    /\ mHeld["runner"] # NoClient
    /\ MRelease("runner")
    /\ IF mTx[mHeld["runner"]].state = "aborted"
          THEN rpc' = "idle" /\ UNCHANGED <<mIsInitialized, tableExists>>
          ELSE rpc' = "applied" /\ mIsInitialized' = TRUE /\ tableExists' = TRUE
    /\ UNCHANGED <<esVars, adVars, restVars, files, records, schema, mTx, mCreated, rop, steps,
                   appliedMigrations, todo, latestBatch, results, invoked, upOk,
                   statusResult, runs, entry, dirExists>>

RunnerQueryPcs == {"applied", "begin", "stmt", "record", "commit", "rollback"}

\* this.pool.query(...) / client.query(...) inside a migration: the pool
\* picks the client the statement runs on
RunnerPoolQuery ==
    /\ rpc \in RunnerQueryPcs
    /\ \E c \in Clients : MAcquire("runner", c)
    /\ UNCHANGED <<esVars, adVars, restVars, mIsInitialized, files, records, schema, mTx, rpc, rop, steps,
                   appliedMigrations, todo, latestBatch, results, invoked, upOk,
                   statusResult, runs, entry,
                   tableExists, dirExists>>

NextOrIdle(list) == IF list = <<>> THEN "idle" ELSE "begin"

\* getAppliedMigrations() has answered; up, down and status then call
\* loadMigrations(), which creates the migrations directory when it is
\* missing, and the operation computes its work list
GetAppliedMigrations ==
    LET c == mHeld["runner"]
        rows == OrderRecords(VisibleRecords(c))
    IN  /\ rpc = "applied"
        /\ c # NoClient
        /\ MRelease("runner")
        /\ IF mTx[c].state = "aborted"
              THEN /\ rpc' = "idle"
                   /\ UNCHANGED <<rop, steps, appliedMigrations, todo, latestBatch,
                                  statusResult, dirExists>>
              ELSE /\ appliedMigrations' = rows
                   /\ CASE rop = "up" ->
                             /\ latestBatch' = LatestBatch(rows)
                             /\ todo' = Pending(rows)
                             /\ rpc' = NextOrIdle(Pending(rows))
                             /\ dirExists' = TRUE
                             /\ UNCHANGED <<rop, steps, statusResult>>
                        [] rop = "down" ->
                             /\ todo' = Discoverable(ToRollback(rows, steps))
                             /\ rpc' = NextOrIdle(Discoverable(ToRollback(rows, steps)))
                             /\ dirExists' = TRUE
                             /\ UNCHANGED <<rop, steps, latestBatch, statusResult>>
                        [] rop = "reset" ->
                             /\ steps' = Len(rows)
                             /\ rop' = "down"
                             /\ rpc' = "init"
                             /\ UNCHANGED <<todo, latestBatch, statusResult, dirExists>>
                        [] OTHER ->
                             /\ statusResult' = [applied |-> rows, pending |-> Pending(rows)]
                             /\ rpc' = "idle"
                             /\ dirExists' = TRUE
                             /\ UNCHANGED <<rop, steps, todo, latestBatch>>
        /\ UNCHANGED <<esVars, adVars, restVars, mIsInitialized, files, records, schema, mTx, mCreated,
                       results, invoked, upOk, runs, entry, tableExists>>

\* BEGIN (inside the try block)
RunnerBegin ==
    LET c == mHeld["runner"]
    IN  /\ rpc = "begin"
        /\ c # NoClient
        /\ MRelease("runner")
        /\ IF mTx[c].state = "aborted"
              THEN rpc' = "rollback" /\ UNCHANGED mTx
              ELSE rpc' = "enter" /\ mTx' = [mTx EXCEPT ![c].state = "open"]
        /\ UNCHANGED <<esVars, adVars, restVars, mIsInitialized, files, records, schema, mCreated, rop, steps,
                       appliedMigrations, todo, latestBatch, results, invoked, upOk,
                       statusResult, runs, entry,
                   tableExists, dirExists>>

\* migration.up(this.pool) / migration.down(this.pool) is called; it may throw
\* before it sends a statement
EnterProcedure ==
    /\ rpc = "enter"
    /\ invoked' = Append(invoked, Head(todo))
    /\ \E threw \in BOOLEAN : rpc' = IF threw THEN "rollback" ELSE "stmt"
    /\ UNCHANGED <<esVars, adVars, restVars, mIsInitialized, files, records, schema, mTx, mCreated, mHeld,
                   rop, steps, appliedMigrations, todo, latestBatch, results, upOk,
                   statusResult, runs, entry,
                   tableExists, dirExists>>

\* variant: the record is written whether or not the procedure threw
AfterProcedure_Always(threw) == "record"

\* where the runner goes when the procedure has returned or thrown
AfterProcedure(threw) == IF threw THEN "rollback" ELSE "record"

\* the change a migration's statement makes in the session it runs on
ApplyStatement(t, op, m) ==
    IF t.state = "open"
       THEN IF op = "up"
               THEN [t EXCEPT !.schAdd = @ \cup {m}, !.schDel = @ \ {m}]
               ELSE [t EXCEPT !.schDel = @ \cup {m}, !.schAdd = @ \ {m}]
       ELSE t

\* the statement of the migration's up / down procedure executes; the engine
\* may reject it, and the procedure may throw after it
RunStatement ==
    LET c == mHeld["runner"]
        m == Head(todo)
    IN  /\ rpc = "stmt"
        /\ c # NoClient
        /\ ~SchemaLocked(c, m)
        /\ MRelease("runner")
        /\ \E rejected \in BOOLEAN, threw \in BOOLEAN :
             IF rejected \/ mTx[c].state = "aborted"
                THEN /\ mTx' = [mTx EXCEPT ![c] = AfterError(@)]
                     /\ rpc' = "rollback"
                     /\ UNCHANGED <<schema, upOk>>
                ELSE /\ mTx' = [mTx EXCEPT ![c] = ApplyStatement(@, rop, m)]
                     /\ schema' = IF mTx[c].state = "open" THEN schema
                                  ELSE IF rop = "up" THEN schema \cup {m} ELSE schema \ {m}
                     /\ rpc' = AfterProcedure(threw)
                     /\ upOk' = IF threw THEN upOk
                                ELSE IF rop = "up" THEN upOk \cup {m} ELSE upOk \ {m}
        /\ UNCHANGED <<esVars, adVars, restVars, mIsInitialized, files, records, mCreated, rop, steps,
                       appliedMigrations, todo, latestBatch, results, invoked,
                       statusResult, runs, entry,
                   tableExists, dirExists>>

\* up: INSERT INTO migrations (id, ..., batch) VALUES (..., latestBatch + 1)
\* down: DELETE FROM migrations WHERE id = $1
RecordMigration ==
    LET c == mHeld["runner"]
        m == Head(todo)
        row == [id |-> m, batch |-> latestBatch + 1]
        fails == \/ mTx[c].state = "aborted"
                 \/ rop = "up" /\ m \in RecordIds(VisibleRecords(c))
    IN  /\ rpc = "record"
        /\ c # NoClient
        /\ ~RecordLocked(c, m)
        /\ MRelease("runner")
        /\ IF fails
              THEN /\ mTx' = [mTx EXCEPT ![c] = AfterError(@)]
                   /\ rpc' = "rollback"
                   /\ UNCHANGED records
              ELSE /\ rpc' = "commit"
                   /\ IF mTx[c].state = "open"
                         THEN /\ UNCHANGED records
                              /\ mTx' = [mTx EXCEPT ![c] =
                                     IF rop = "up"
                                        THEN [@ EXCEPT !.recAdd = @ \cup {row}]
                                        ELSE [@ EXCEPT !.recAdd = {r \in @ : r.id # m},
                                                       !.recDel = @ \cup {m}]]
                         ELSE /\ UNCHANGED mTx
                              /\ records' = IF rop = "up" THEN records \cup {row}
                                            ELSE {r \in records : r.id # m}
        /\ UNCHANGED <<esVars, adVars, restVars, mIsInitialized, files, schema, mCreated, rop, steps,
                       appliedMigrations, todo, latestBatch, results, invoked, upOk,
                       statusResult, runs, entry,
                   tableExists, dirExists>>

\* COMMIT; results.push({status: 'success'}); next migration of the loop
RunnerCommit ==
    LET c == mHeld["runner"]
    IN  /\ rpc = "commit"
        /\ c # NoClient
        /\ MRelease("runner")
        /\ records' = CommittedRecords(c)
        /\ schema' = CommittedSchema(c)
        /\ mTx' = [mTx EXCEPT ![c] = NoTx]
        /\ results' = Append(results, [id |-> Head(todo), status |-> "success"])
        /\ todo' = Tail(todo)
        /\ rpc' = NextOrIdle(Tail(todo))
        /\ UNCHANGED <<esVars, adVars, restVars, mIsInitialized, files, mCreated, rop, steps,
                       appliedMigrations, latestBatch, invoked, upOk, statusResult, runs, entry,
                   tableExists, dirExists>>

\* variant: the loop continues with the next migration
RemainingAfterError_Continue(list) == Tail(list)

\* break: no further migration of the list is processed
RemainingAfterError(list) == <<>>

\* ROLLBACK; results.push({status: 'error'}); break
RunnerRollback ==
    LET c == mHeld["runner"]
    IN  /\ rpc = "rollback"
        /\ c # NoClient
        /\ MRelease("runner")
        /\ mTx' = [mTx EXCEPT ![c] = NoTx]
        /\ results' = Append(results, [id |-> Head(todo), status |-> "error"])
        /\ todo' = RemainingAfterError(todo)
        /\ rpc' = NextOrIdle(RemainingAfterError(todo))
        /\ UNCHANGED <<esVars, adVars, restVars, mIsInitialized, files, records, schema, mCreated, rop, steps,
                       appliedMigrations, latestBatch, invoked, upOk, statusResult, runs, entry,
                   tableExists, dirExists>>

\* another user of the pool the runner was constructed with sends a query
OtherQuery ==
    /\ \E c \in Clients : MAcquire("other", c)
    /\ UNCHANGED <<esVars, adVars, restVars, mIsInitialized, files, records, schema, mTx, rpc, rop, steps,
                   appliedMigrations, todo, latestBatch, results, invoked, upOk,
                   statusResult, runs, entry,
                   tableExists, dirExists>>

OtherDone ==
    /\ mHeld["other"] # NoClient
    /\ MRelease("other")
    /\ UNCHANGED <<esVars, adVars, restVars, mIsInitialized, files, records, schema, mTx, mCreated, rpc, rop,
                   steps, appliedMigrations, todo, latestBatch, results, invoked, upOk,
                   statusResult, runs, entry,
                   tableExists, dirExists>>

RunnerStep ==
    \/ RunnerInitialize
    \/ RunnerProvision
    \/ RunnerPoolQuery
    \/ GetAppliedMigrations
    \/ RunnerBegin
    \/ EnterProcedure
    \/ RunStatement
    \/ RecordMigration
    \/ RunnerCommit
    \/ RunnerRollback

\* the runner is the only user of its pool (the migration CLI)
NextMig ==
    \/ Up
    \/ \E n \in 0..MaxSteps : Down(n)
    \/ Reset
    \/ Status
    \/ RunnerStep

SpecMig == InitMigrations /\ [][NextMig]_vars

\* up() while the pool serves another user as well
NextMigPool ==
    \/ runs < MaxSharedRuns /\ Up
    \/ RunnerStep
    \/ OtherQuery
    \/ OtherDone

SpecMigPool == Init /\ [][NextMigPool]_vars

\* ------------------------------------------------------------------------
\* Properties of the migration runner
\* ------------------------------------------------------------------------
Range(seq) == {seq[k] : k \in 1..Len(seq)}

\* C7: between runner operations, a migration's record is in the table if and
\* only if its up returned without error and it was not rolled back since.
C7_RecordIffApplied == rpc = "idle" => RecordIds(records) = upOk

C7_Witness ==
    /\ rpc = "idle"
    /\ rop = "down"
    /\ Len(results) = 2
    /\ results[1].status = "success"
    /\ results[2].status = "error"
    /\ records # {}

\* C8: when up() has returned, a migration's statements are in effect exactly
\* when its record is in the table, and the statements of a migration that
\* up() reported as failed are not in effect.
C8_UpAtomic ==
    (rpc = "idle" /\ rop = "up") =>
        /\ \A m \in Migrations : (m \in schema) <=> (m \in RecordIds(records))
        /\ \A k \in 1..Len(results) :
               results[k].status = "error" => results[k].id \notin schema

UpFailed ==
    /\ rpc = "idle"
    /\ rop = "up"
    /\ results # <<>>
    /\ results[Len(results)].status = "error"

\* C9: when up() returns after a migration's up threw, that migration is the
\* last one whose up was invoked (nothing later in timestamp order was
\* attempted), the migrations applied before it in the call have their
\* records, and status() lists the failed migration and all later ones as
\* pending.
C9_FailFast ==
    UpFailed =>
        LET failed == results[Len(results)].id
        IN  /\ invoked = [k \in 1..Len(results) |-> results[k].id]
            /\ \A m \in Migrations :
                   Timestamp(m) > Timestamp(failed) => m \notin Range(invoked)
            /\ \A k \in 1..(Len(results) - 1) :
                   /\ results[k].status = "success"
                   /\ results[k].id \in RecordIds(records)
            /\ \A m \in Migrations :
                   Timestamp(m) >= Timestamp(failed)
                       => m \in Range(Pending(OrderRecords(records)))

C9_Witness ==
    /\ UpFailed
    /\ Len(results) = 2
    /\ results[2].id = "m2"
    /\ RecordIds(records) = {"m1"}

\* C10: up() invokes the up procedures of the migrations that were pending at
\* its start in ascending timestamp order, whatever order the files were
\* listed in, and no transaction is open when the next migration's BEGIN is
\* sent.
C10_TimestampOrder ==
    rop = "up" =>
        LET pend == {m \in Migrations : m \notin SeqIds(appliedMigrations)}
        IN  /\ \A j, k \in 1..Len(invoked) :
                   j < k => Timestamp(invoked[j]) < Timestamp(invoked[k])
            /\ \A k \in 1..Len(invoked) :
                   /\ invoked[k] \in pend
                   /\ Cardinality({m \in pend : Timestamp(m) < Timestamp(invoked[k])}) = k - 1
            /\ rpc = "begin" => \A c \in Clients : mTx[c].state = "none"

C10_Witness ==
    /\ rop = "up"
    /\ rpc = "idle"
    /\ files = <<"m3", "m1", "m2">>
    /\ invoked = <<"m1", "m2", "m3">>

\* C11: in any sequence of up(), down() and reset() calls, the up procedure
\* of a migration is never invoked while the migration's record is in the
\* table: an applied migration is applied again only after a rollback has
\* removed its record.
C11_NoReapplication ==
    [][(rop = "up" /\ Len(invoked') = Len(invoked) + 1)
           => invoked'[Len(invoked')] \notin RecordIds(records)]_vars

\* up() skipped the two recorded migrations and invoked only the third
C11_Witness ==
    /\ entry = "up"
    /\ rpc = "idle"
    /\ runs = 3
    /\ SeqIds(appliedMigrations) = {"m1", "m2"}
    /\ invoked = <<"m3">>
    /\ upOk = Migrations
    /\ \A r \in records : r.batch = (IF r.id = "m3" THEN 2 ELSE 1)

\* C12: every record written by one up() call carries the same batch number:
\* 1 when the table held no record when the call read it, and otherwise the
\* largest batch number among the records it read, plus one.
C12_BatchNumbering ==
    (entry = "up" /\ rpc \notin {"init", "ddl", "applied"}) =>
        LET before == Range(appliedMigrations)
            written == {r \in records : r.id \notin RecordIds(before)}
            expected == IF before = {} THEN 1
                        ELSE 1 + CHOOSE b \in {r.batch : r \in before} :
                                     \A r \in before : r.batch <= b
        IN  \A r \in written : r.batch = expected

\* the second up() recorded two migrations in batch 2
C12_Witness ==
    /\ entry = "up"
    /\ rpc = "idle"
    /\ records = {[id |-> "m1", batch |-> 1], [id |-> "m2", batch |-> 2],
                  [id |-> "m3", batch |-> 2]}
    /\ Len(results) = 2

AllSucceeded == \A k \in 1..Len(results) : results[k].status = "success"

\* C13: when down(steps) with steps >= 1 has returned and every down
\* procedure succeeded, the records removed are exactly the min(steps, size
\* of the latest batch) records of the latest batch with the highest
\* timestamps, their down procedures were invoked in descending timestamp
\* order, and every other record is as it was.
C13_BatchScopedRollback ==
    (rop = "down" /\ rpc = "idle" /\ steps >= 1 /\ AllSucceeded) =>
        LET before == Range(appliedMigrations)
            latest == {r \in before : \A q \in before : q.batch <= r.batch}
            count == IF steps < Cardinality(latest) THEN steps ELSE Cardinality(latest)
            removed == before \ records
        IN  /\ records \subseteq before
            /\ removed \subseteq latest
            /\ Cardinality(removed) = count
            /\ \A r \in removed, q \in latest \ removed :
                   Timestamp(r.id) > Timestamp(q.id)
            /\ Range(invoked) = RecordIds(removed)
            /\ Len(invoked) = count
            /\ \A j, k \in 1..Len(invoked) :
                   j < k => Timestamp(invoked[j]) > Timestamp(invoked[k])

\* down(2) rolled back m3 and then m2 of batch 2 and left m1 of batch 1
C13_Witness ==
    /\ entry = "down"
    /\ rpc = "idle"
    /\ steps = 2
    /\ AllSucceeded
    /\ invoked = <<"m3", "m2">>
    /\ records = {[id |-> "m1", batch |-> 1]}
    /\ [id |-> "m2", batch |-> 2] \in Range(appliedMigrations)

\* C14: when reset() has returned and every down procedure it invoked
\* succeeded, no migration record is left, whatever up() and down() calls
\* came before (also when they applied migrations in more than one batch).
C14_ResetRemovesAll ==
    (entry = "reset" /\ rop = "down" /\ rpc = "idle" /\ AllSucceeded) => records = {}

\* C15: a status() call changes neither the migration records, nor the
\* effects of the migrations, nor the metadata schema and table, nor the
\* migrations directory and its files, and the pending list it returns holds
\* exactly the loaded migrations that have no record.
C15_StatusMutatesNothing ==
    [][(entry = "status" /\ rpc # "idle") =>
           /\ records' = records
           /\ schema' = schema
           /\ tableExists' = tableExists
           /\ dirExists' = dirExists
           /\ files' = files
           /\ rpc' = "idle" =>
                  Range(statusResult'.pending) =
                      {m \in Range(files) : m \notin RecordIds(records)}]_vars

\* ------------------------------------------------------------------------
\* Entity adapters: values, rows and statements
\* ------------------------------------------------------------------------
MaxAdapterOps == 3  \* adapter calls completed in one behaviour

\* node-pg prepareValue: an array parameter is written as a PostgreSQL array
\* literal, any other object as its JSON text
PrepareValue(v) ==
    IF v \in Arrays THEN [format |-> "pgArray", of |-> v] ELSE [format |-> "json", of |-> v]

\* the data parameter of the save statement: PostgresAdapter passes the
\* value itself, its earlier revision and SQLiteAdapter pass JSON.stringify(data)
DataParam(kind, v) == IF kind = "postgres" THEN PrepareValue(v) ELSE JsonStringify(v)

\* a JSONB column takes JSON text only, a TEXT column takes any text
ColumnAccepts(kind, param) == kind = "sqlite" \/ param.format = "json"

\* the value read from the data column: the parsed JSON text
ParseData(d) == d.of

HasKey(rows, k) == \E r \in rows : r.key = k

\* SELECT data ... WHERE key = $1: the first row's data, or null without a row
Lookup(rows, k) ==
    IF HasKey(rows, k) THEN ParseData((CHOOSE r \in rows : r.key = k).data) ELSE Null

\* INSERT ... ON CONFLICT (key) DO UPDATE SET data = $2 / INSERT OR REPLACE
Upsert(rows, k, d) == {r \in rows : r.key # k} \cup {[key |-> k, data |-> d]}

\* variant: DELETE without its WHERE clause
DeleteKey_All(rows, k) == {}

\* DELETE ... WHERE key = $1
DeleteKey(rows, k) == {r \in rows : r.key # k}

\* the rows with the writes w of a transaction applied
Overlay(rows, w) ==
    {r \in rows : w[r.key] = Unwritten}
        \cup {[key |-> k, data |-> w[k]] : k \in {j \in Keys : w[j] \notin {Unwritten, Deleted}}}

\* variant: the failure path commits
RolledBack_Commit(rows, w) == Overlay(rows, w)

\* ROLLBACK, or the loss of the session: the transaction's writes are dropped
RolledBack(rows, w) == rows

\* one completed call: ctx is "standalone" outside withTransaction, "client"
\* for a statement on the transaction's connection and "pool" for a statement
\* of the callback that went to this.pool; wrote says the statement changed a row
Entry(op, k, arg, ret, ctx, error, wrote) ==
    [op |-> op, key |-> k, arg |-> arg, ret |-> ret, ctx |-> ctx, error |-> error,
     wrote |-> wrote, original |-> "none", rollbackFailed |-> FALSE]

\* a completed withTransaction: the error it rejected with ("none" when it
\* resolved), the error that entered its catch block, and whether ROLLBACK failed
TxEntry(error, original, failed) ==
    [op |-> "withTransaction", key |-> "none", arg |-> Null, ret |-> Null,
     ctx |-> "standalone", error |-> error, wrote |-> FALSE,
     original |-> original, rollbackFailed |-> failed]

\* client && !('options' in client) ? client.query : pool.query; SQLiteAdapter
\* has one connection, which is the one the transaction runs on
InTx(viaClient) == apc = "callback" /\ (adapter = "sqlite" \/ viaClient)

Ctx(viaClient) ==
    IF apc = "idle" THEN "standalone" ELSE IF InTx(viaClient) THEN "client" ELSE "pool"

\* a call can be made between calls or from inside the callback; only the
\* callback of a PostgresAdapter has a client to pass
CanCall(viaClient) ==
    /\ apc \in {"idle", "callback"}
    /\ viaClient => (apc = "callback" /\ adapter # "sqlite")
    /\ Len(aLog) < (IF apc = "callback" THEN MaxAdapterOps - 1 ELSE MaxAdapterOps)

\* keys the callback has changed through the pool since the transaction began
OutsideWrites ==
    {aLog[i].key : i \in {j \in (txStart + 1)..Len(aLog) : aLog[j].ctx = "pool" /\ aLog[j].wrote}}

\* SET TRANSACTION ISOLATION LEVEL SERIALIZABLE: the transaction reads the
\* rows as they were when it began; the earlier revision and SQLite read the
\* rows as they are
RowsSeen(inTx) ==
    IF inTx THEN Overlay(IF adapter = "postgres" THEN snapshot ELSE tableRows, txWrites)
    ELSE tableRows

\* a statement of the callback was rejected: the error leaves the callback
Raise(failed) ==
    IF failed /\ apc = "callback"
       THEN apc' = "rollback" /\ pending' = "callback"
       ELSE UNCHANGED <<apc, pending>>

\* ------------------------------------------------------------------------
\* Entity adapters: save, load, delete
\* ------------------------------------------------------------------------
\* save(key, data, client?): a statement sent to the pool waits while the open
\* transaction holds a write of the key; under SERIALIZABLE a statement of
\* the transaction fails on a row changed since the transaction began
Save(k, v, viaClient) ==
    LET param == DataParam(adapter, v)
        inTx == InTx(viaClient)
        failed == \/ ~ColumnAccepts(adapter, param)
                  \/ inTx /\ adapter = "postgres" /\ k \in OutsideWrites /\ HasKey(tableRows, k)
    IN  /\ CanCall(viaClient)
        /\ inTx \/ txWrites[k] = Unwritten
        /\ aInitialized' = TRUE
        /\ IF failed
              THEN UNCHANGED <<tableRows, txWrites>>
              ELSE IF inTx
                      THEN txWrites' = [txWrites EXCEPT ![k] = param] /\ UNCHANGED tableRows
                      ELSE tableRows' = Upsert(tableRows, k, param) /\ UNCHANGED txWrites
        /\ Raise(failed)
        /\ aLog' = Append(aLog, Entry("save", k, v, Null, Ctx(viaClient),
                                      IF failed THEN "rejected" ELSE "none", ~failed))
        /\ UNCHANGED <<esVars, migVars, restVars, adapter, snapshot, txStart, acquired, released>>

\* load(key, client?)
Load(k, viaClient) ==
    /\ CanCall(viaClient)
    /\ aInitialized' = TRUE
    /\ aLog' = Append(aLog, Entry("load", k, Null, Lookup(RowsSeen(InTx(viaClient)), k),
                                  Ctx(viaClient), "none", FALSE))
    /\ UNCHANGED <<esVars, migVars, restVars, adapter, tableRows, txWrites, snapshot, apc, pending,
                   txStart, acquired, released>>

\* delete(key, client?)
Delete(k, viaClient) ==
    LET inTx == InTx(viaClient)
        found == HasKey(RowsSeen(inTx), k)
        failed == inTx /\ adapter = "postgres" /\ k \in OutsideWrites /\ found
    IN  /\ CanCall(viaClient)
        /\ inTx \/ txWrites[k] = Unwritten \/ ~found
        /\ aInitialized' = TRUE
        /\ IF failed
              THEN UNCHANGED <<tableRows, txWrites>>
              ELSE IF inTx
                      THEN /\ txWrites' = IF found THEN [txWrites EXCEPT ![k] = Deleted]
                                          ELSE txWrites
                           /\ UNCHANGED tableRows
                      ELSE tableRows' = DeleteKey(tableRows, k) /\ UNCHANGED txWrites
        /\ Raise(failed)
        /\ aLog' = Append(aLog, Entry("delete", k, Null, Null, Ctx(viaClient),
                                      IF failed THEN "rejected" ELSE "none",
                                      found /\ ~failed))
        /\ UNCHANGED <<esVars, migVars, restVars, adapter, snapshot, txStart, acquired, released>>

\* ------------------------------------------------------------------------
\* Entity adapters: withTransaction
\* ------------------------------------------------------------------------
Pooled == adapter \in {"postgres", "postgresOld"}

\* withTransaction(callback) up to the call of the callback: pool.connect()
\* and BEGIN (PostgresAdapter), initialize() and BEGIN (SQLiteAdapter)
WithTransaction ==
    /\ apc = "idle"
    /\ Len(aLog) < MaxAdapterOps
    /\ txStart' = Len(aLog)
    /\ txWrites' = [k \in Keys |-> Unwritten]
    /\ snapshot' = tableRows
    /\ released' = 0
    /\ aInitialized' = (aInitialized \/ adapter = "sqlite")
    /\ \E failure \in {"none", "connect", "begin"} :
         /\ failure = "connect" => Pooled
         /\ acquired' = IF Pooled /\ failure # "connect" THEN 1 ELSE 0
         /\ CASE failure = "none" ->
                   apc' = "callback" /\ UNCHANGED <<pending, aLog>>
              [] failure = "begin" /\ Pooled ->
                   apc' = "rollback" /\ pending' = "begin" /\ UNCHANGED aLog
              [] OTHER ->
                   /\ aLog' = Append(aLog, TxEntry(failure, failure, FALSE))
                   /\ UNCHANGED <<apc, pending>>
    /\ UNCHANGED <<esVars, migVars, restVars, adapter, tableRows>>

\* the callback returns: COMMIT; on the pooled adapters COMMIT may fail,
\* which enters the catch block; the embedded database has one connection
\* and no other writer, its COMMIT succeeds
CallbackReturn ==
    /\ apc = "callback"
    /\ \E commitFails \in BOOLEAN :
         /\ commitFails => Pooled
         /\ IF commitFails
               THEN /\ apc' = "rollback"
                    /\ pending' = "commit"
                    /\ UNCHANGED <<tableRows, txWrites, aLog, released>>
               ELSE /\ tableRows' = Overlay(tableRows, txWrites)
                    /\ txWrites' = [k \in Keys |-> Unwritten]
                    /\ released' = IF Pooled THEN released + 1 ELSE released
                    /\ aLog' = Append(aLog, TxEntry("none", "none", FALSE))
                    /\ apc' = "idle"
                    /\ UNCHANGED pending
    /\ UNCHANGED <<esVars, migVars, restVars, adapter, aInitialized, snapshot, txStart, acquired>>

\* the callback throws
CallbackThrow ==
    /\ apc = "callback"
    /\ apc' = "rollback"
    /\ pending' = "callback"
    /\ UNCHANGED <<esVars, migVars, restVars, adapter, aInitialized, tableRows, txWrites, snapshot,
                   aLog, txStart, acquired, released>>

\* the error withTransaction rejects with: the earlier revision awaits
\* ROLLBACK in its catch block without a try of its own
Delivered(kind, original, rollbackFailed) ==
    IF kind = "postgresOld" /\ rollbackFailed THEN "rollback" ELSE original

\* variant: the client is released after ROLLBACK inside the catch block
ReleasedAfterCatch_InCatch(count, rollbackFailed) ==
    IF rollbackFailed THEN count ELSE count + 1

\* finally { client.release() }
ReleasedAfterCatch(count, rollbackFailed) == count + 1

\* catch (error): ROLLBACK, which fails when the session has lost the
\* transaction (the connection is gone, or the engine has rolled back
\* already); then the release and the rejection
CatchBlock ==
    /\ apc = "rollback"
    /\ \E rollbackFailed \in BOOLEAN :
         /\ tableRows' = RolledBack(tableRows, txWrites)
         /\ txWrites' = [k \in Keys |-> Unwritten]
         /\ released' = IF Pooled THEN ReleasedAfterCatch(released, rollbackFailed)
                        ELSE released
         /\ aLog' = Append(aLog, TxEntry(Delivered(adapter, pending, rollbackFailed),
                                         pending, rollbackFailed))
    /\ apc' = "idle"
    /\ pending' = "none"
    /\ UNCHANGED <<esVars, migVars, restVars, adapter, aInitialized, snapshot, txStart, acquired>>

NextAdapter ==
    \/ \E k \in Keys, v \in Values, viaClient \in BOOLEAN : Save(k, v, viaClient)
    \/ \E k \in Keys, viaClient \in BOOLEAN : Load(k, viaClient)
    \/ \E k \in Keys, viaClient \in BOOLEAN : Delete(k, viaClient)
    \/ WithTransaction
    \/ CallbackReturn
    \/ CallbackThrow
    \/ CatchBlock

SpecAdapter == InitAdapters /\ [][NextAdapter]_vars

\* ------------------------------------------------------------------------
\* Properties of the entity adapters
\* ------------------------------------------------------------------------
Standalone(i) == aLog[i].ctx = "standalone"

LastEntry == aLog[Len(aLog)]

\* C16: save(k, v1), save(k, v2), load(k), called one after the other outside
\* a transaction, succeed and the load returns v2, for every key and all
\* values; and the table never holds two rows with the same key.
C16_Upsert ==
    /\ \A i \in 1..(Len(aLog) - 2) :
           ( /\ aLog[i].op = "save" /\ aLog[i + 1].op = "save" /\ aLog[i + 2].op = "load"
             /\ aLog[i + 1].key = aLog[i].key /\ aLog[i + 2].key = aLog[i].key
             /\ Standalone(i) /\ Standalone(i + 1) /\ Standalone(i + 2) )
           => /\ aLog[i].error = "none"
              /\ aLog[i + 1].error = "none"
              /\ aLog[i + 2].ret = aLog[i + 1].arg
    /\ \A r, q \in tableRows : r.key = q.key => r = q

\* C17: a delete(k) called outside a transaction succeeds whether or not k
\* is stored, leaves no row for k and leaves the rows of every other key as
\* they were; a load(k) that follows it returns null without an error.
C17_DeleteThenLoad ==
    [][(apc = "idle" /\ Len(aLog') = Len(aLog) + 1) =>
           LET e == aLog'[Len(aLog')]
           IN  /\ e.op = "delete" =>
                      /\ e.error = "none"
                      /\ ~HasKey(tableRows', e.key)
                      /\ {r \in tableRows' : r.key # e.key} = {r \in tableRows : r.key # e.key}
               /\ ( /\ e.op = "load"
                    /\ aLog # <<>>
                    /\ LastEntry.op = "delete"
                    /\ LastEntry.key = e.key
                    /\ LastEntry.ctx = "standalone" )
                  => (e.ret = Null /\ e.error = "none")]_vars

\* delete of an absent key, then load of it, with the other key still stored
C17_Witness ==
    /\ Len(aLog) = 2
    /\ aLog[1].op = "delete" /\ ~aLog[1].wrote /\ aLog[1].error = "none"
    /\ aLog[2].op = "load" /\ aLog[2].key = aLog[1].key /\ aLog[2].ret = Null
    /\ \E r \in tableRows : r.key # aLog[1].key

\* withTransaction has returned after its callback threw
CallbackFailed ==
    /\ apc = "idle"
    /\ aLog # <<>>
    /\ LastEntry.op = "withTransaction"
    /\ LastEntry.original = "callback"

\* the calls the callback of the last withTransaction made
CallbackCalls == {i \in (txStart + 1)..(Len(aLog) - 1) : aLog[i].op # "withTransaction"}

\* C18 as stated: when the callback of withTransaction made saves or deletes
\* and then threw, every key holds the value it held when withTransaction
\* was called, and withTransaction rejected.
C18_TransactionRollback ==
    CallbackFailed => (tableRows = snapshot /\ LastEntry.error # "none")

\* C18 amended: when every save and delete of the callback ran on the
\* transaction's connection (for PostgresAdapter: was given the client the
\* callback received; SQLiteAdapter has one connection) and the callback
\* then threw, every key holds the value it held when withTransaction was
\* called, and withTransaction rejected.
C18_RollbackOfClientWrites ==
    ( /\ CallbackFailed
      /\ \A i \in CallbackCalls : aLog[i].op \in {"save", "delete"} => aLog[i].ctx = "client" )
    => (tableRows = snapshot /\ LastEntry.error # "none")

\* a PostgresAdapter callback overwrote a stored key through its client and threw
C18_Witness ==
    /\ CallbackFailed
    /\ adapter = "postgres"
    /\ \E i \in CallbackCalls :
           /\ aLog[i].op = "save" /\ aLog[i].ctx = "client" /\ aLog[i].wrote
           /\ Lookup(snapshot, aLog[i].key) \notin {Null, aLog[i].arg}
    /\ tableRows = snapshot

\* C19: withTransaction of the PostgreSQL adapter (both revisions) holds one
\* client while it runs and has released it exactly once when it returns:
\* after COMMIT, after a ROLLBACK that succeeded and after a ROLLBACK that
\* failed; a withTransaction whose connect() failed holds and releases none.
C19_ReleasedExactlyOnce ==
    Pooled =>
        /\ apc = "idle" => released = acquired
        /\ apc # "idle" => (acquired = 1 /\ released = 0)
        /\ acquired <= 1

\* the callback threw, ROLLBACK failed, and the client was released once
C19_Witness ==
    /\ CallbackFailed
    /\ Pooled
    /\ LastEntry.rollbackFailed
    /\ acquired = 1
    /\ released = 1

\* ------------------------------------------------------------------------
\* The transaction wrappers with a connection that may fail
\* ------------------------------------------------------------------------
MaxWrapperCalls == 1  \* append calls started in one behaviour

\* append calls made one at a time whose ROLLBACK may fail, and
\* withTransaction calls of the adapter
NextWrappers ==
    \/ \E p \in Callers :
          /\ AllIdle /\ Len(calls) < MaxWrapperCalls
          /\ \E s \in Streams, n \in 1..MaxOverlapBatch : \E bad \in 0..n :
                StartAppend(p, s, n, bad)
    \/ \E p \in Callers : StepPg(p)
    \/ \E p \in Callers : RollbackFailed(p)
    \/ WithTransaction
    \/ \E k \in Keys, v \in Values : Save(k, v, adapter = "postgres")
    \/ CallbackReturn
    \/ CallbackThrow
    \/ CatchBlock

SpecWrappers == InitWrappers /\ [][NextWrappers]_vars

\* C20: whenever the body of a transaction wrapper failed and the ROLLBACK
\* that followed failed too, the wrapper rejected with the body's error:
\* no withTransaction call and no append call rejected with the error of
\* ROLLBACK.
C20_OriginalErrorPreserved ==
    /\ \A i \in 1..Len(aLog) : aLog[i].rollbackFailed => aLog[i].error = aLog[i].original
    /\ \A i \in 1..Len(calls) : calls[i].status # "rollbackError"

\* ------------------------------------------------------------------------
\* Entity adapters side by side: documents, filters and WHERE clauses
\* ------------------------------------------------------------------------
\* a JSON scalar: its type and its text (a number's text is its decimal form)
Str(s) == [t |-> "string", v |-> s]
Num(s) == [t |-> "number", v |-> s]
\* the field is not in the document: ->> and json_extract give SQL NULL
SqlNull == [t |-> "null", v |-> ""]

\* the own properties of each document
DocEntries(d) ==
    CASE d = "user30"     -> [type |-> Str("user"), age |-> Num("30")]
      [] d = "admin30"    -> [type |-> Str("admin"), age |-> Num("30")]
      [] d = "userText30" -> [type |-> Str("user"), age |-> Str("30")]
      [] d = "userNoAge"  -> [type |-> Str("user")]

FilterScalars == {Str("user"), Str("admin"), Num("30"), Num("25"), Str("30")}

\* the filters passed to query: plain objects over the fields type and age
\* (the empty object included), null, the number 123, the arrays [] and ["user"]
ObjectFilters ==
    {[shape |-> "object", entries |-> e] :
        e \in UNION {[fs -> FilterScalars] : fs \in SUBSET {"type", "age"}}}

NullFilter == [shape |-> "null", entries |-> <<>>]
NumberFilter == [shape |-> "number", entries |-> <<>>]
EmptyArrayFilter == [shape |-> "array", entries |-> <<>>]
ArrayFilter == [shape |-> "array", entries |-> [i \in {"0"} |-> Str("user")]]

Filters == ObjectFilters \cup {NullFilter, NumberFilter, EmptyArrayFilter, ArrayFilter}

\* !filter, typeof filter === 'object', Array.isArray(filter)
Falsy(f) == f.shape = "null"
TypeofObject(f) == f.shape \in {"object", "array", "null"}
IsArray(f) == f.shape = "array"

\* a WHERE clause: the constant '1=1' or '1=0', or a conjunction of
\* comparisons, one for each entry of Object.entries(filter)
Const(b) == [const |-> TRUE, value |-> b, entries |-> <<>>]
Conjunction(e) == [const |-> FALSE, value |-> TRUE, entries |-> e]

\* PostgresAdapter.buildJsonbConditions
BuildJsonbConditions(f) ==
    IF Falsy(f) \/ ~TypeofObject(f) \/ IsArray(f) THEN Const(FALSE)
    ELSE IF DOMAIN f.entries = {} THEN Const(TRUE)
    ELSE Conjunction(f.entries)

\* buildJsonbConditions of the earlier revision and
\* SQLiteAdapter.buildQueryConditions
BuildQueryConditions(f) ==
    IF Falsy(f) \/ ~TypeofObject(f) THEN Const(TRUE)
    ELSE IF DOMAIN f.entries = {} THEN Const(TRUE)
    ELSE Conjunction(f.entries)

\* data->>'field' and json_extract(data, '$.field') on a stored document
Extract(d, field) ==
    IF field \in DOMAIN DocEntries(d) THEN DocEntries(d)[field] ELSE SqlNull

\* data->>'field' = $n: ->> yields the field as text and node-pg sends the
\* parameter as text; a comparison with NULL is not true
JsonbEquals(x, param) == x.t # "null" /\ x.v = param.v

\* json_extract(...) = ?: the extracted value and the bound parameter keep
\* their storage class, and a number never equals a text
JsonExtractEquals(x, param) == x.t # "null" /\ x.t = param.t /\ x.v = param.v

FieldEquals(kind, x, param) ==
    IF kind = "sqlite" THEN JsonExtractEquals(x, param) ELSE JsonbEquals(x, param)

\* whether the row's document satisfies the WHERE clause
Satisfies(kind, where, d) ==
    IF where.const THEN where.value
    ELSE \A field \in DOMAIN where.entries :
            FieldEquals(kind, Extract(d, field), where.entries[field])

\* rows.map(row => row[dataColumn]): the values of the rows, one for each row
ValuesOf(rows) ==
    [d \in Documents |-> Cardinality({r \in rows : ParseData(r.data) = d})]

NoValues == [d \in Documents |-> 0]

\* SELECT data FROM table WHERE conditions
SelectData(kind, rows, where) ==
    ValuesOf({r \in rows : Satisfies(kind, where, ParseData(r.data))})

\* query(filter) of each adapter class
QueryResult(kind, rows, f) ==
    CASE kind = "postgres" ->
            IF Falsy(f) \/ ~TypeofObject(f) \/ IsArray(f) THEN NoValues
            ELSE SelectData(kind, rows, BuildJsonbConditions(f))
      [] OTHER -> SelectData(kind, rows, BuildQueryConditions(f))

\* ------------------------------------------------------------------------
\* Entity adapters side by side: the same calls made on every adapter
\* ------------------------------------------------------------------------
Call(op, k, d, f, ret) == [op |-> op, key |-> k, doc |-> d, filter |-> f, ret |-> ret]

\* save(key, data) on each adapter
SaveAll(k, d) ==
    LET ok(kind) == ColumnAccepts(kind, DataParam(kind, d))
    IN  /\ stores' = [kind \in AdapterKinds |->
                         IF ok(kind) THEN Upsert(stores[kind], k, DataParam(kind, d))
                         ELSE stores[kind]]
        /\ qLast' = Call("save", k, d, "none",
                         [kind \in AdapterKinds |-> IF ok(kind) THEN "ok" ELSE "rejected"])
        /\ UNCHANGED <<esVars, migVars, lateVars, adVars, facVars, provVars, snapVars>>

\* delete(key) on each adapter
DeleteAll(k) ==
    /\ stores' = [kind \in AdapterKinds |-> DeleteKey(stores[kind], k)]
    /\ qLast' = Call("delete", k, "none", "none", [kind \in AdapterKinds |-> "ok"])
    /\ UNCHANGED <<esVars, migVars, lateVars, adVars, facVars, provVars, snapVars>>

\* load(key) on each adapter
LoadAll(k) ==
    /\ qLast' = Call("load", k, "none", "none",
                     [kind \in AdapterKinds |-> Lookup(stores[kind], k)])
    /\ UNCHANGED <<esVars, migVars, lateVars, adVars, facVars, provVars, snapVars, stores>>

\* query(filter) on each adapter
QueryAll(f) ==
    /\ qLast' = Call("query", "none", "none", f,
                     [kind \in AdapterKinds |-> QueryResult(kind, stores[kind], f)])
    /\ UNCHANGED <<esVars, migVars, lateVars, adVars, facVars, provVars, snapVars, stores>>

NextSideBySide ==
    \/ \E k \in Keys, d \in Documents : SaveAll(k, d)
    \/ \E k \in Keys : DeleteAll(k)
    \/ \E k \in Keys : LoadAll(k)
    \/ \E f \in Filters : QueryAll(f)

SpecSideBySide == Init /\ [][NextSideBySide]_vars

\* ------------------------------------------------------------------------
\* Properties of query
\* ------------------------------------------------------------------------
\* the document has, for every field of the filter, the filter's value
HasFields(d, f) ==
    \A field \in DOMAIN f.entries :
        field \in DOMAIN DocEntries(d) /\ DocEntries(d)[field] = f.entries[field]

\* the values stored under the keys whose document has the filter's fields
MatchingValues(rows, f) ==
    [d \in Documents |-> Cardinality({k \in Keys : Lookup(rows, k) = d /\ HasFields(d, f)})]

FlatFilter(f) == f \in ObjectFilters /\ DOMAIN f.entries # {}

\* C21: on every adapter, query with a non-empty flat filter returns exactly
\* the stored values, one for each key, whose document has for every field
\* of the filter the filter's value for that field.
C21_FilterEquality ==
    (qLast.op = "query" /\ FlatFilter(qLast.filter)) =>
        \A kind \in AdapterKinds :
            qLast.ret[kind] = MatchingValues(stores[kind], qLast.filter)

SqlAdapters == {"postgres", "postgresOld"}

\* C22: query of the PostgreSQL adapter with the filter null or with a
\* number as the filter returns the empty list, whatever the table holds.
C22_MalformedFilterFailsClosed ==
    (qLast.op = "query" /\ qLast.filter \in {NullFilter, NumberFilter}) =>
        \A kind \in SqlAdapters : qLast.ret[kind] = NoValues

\* C23: after the same save and delete calls, load of any key and query
\* with any filter (flat mapping, empty object, null, number, array) return
\* the same from PostgresAdapter and from SQLiteAdapter.
C23_AdapterEquivalence ==
    qLast.op \in {"load", "query"} => qLast.ret["postgres"] = qLast.ret["sqlite"]

\* ------------------------------------------------------------------------
\* Adapter factory
\* ------------------------------------------------------------------------
MaxFactoryCalls == 4  \* factory calls started in one behaviour

\* variant: the registry is never consulted
MapHas_Never(m, name) == FALSE

\* Map.has(name)
MapHas(m, name) == \E i \in 1..Len(m) : m[i].name = name

\* Map.get(name): undefined without an entry
MapGet(m, name) ==
    IF MapHas(m, name) THEN m[CHOOSE i \in 1..Len(m) : m[i].name = name].id ELSE Undefined

\* Map.set(name, id): an existing entry keeps its place, a new one goes last
MapSet(m, name, id) ==
    IF MapHas(m, name)
       THEN [i \in 1..Len(m) |-> IF m[i].name = name THEN [name |-> name, id |-> id] ELSE m[i]]
       ELSE Append(m, [name |-> name, id |-> id])

\* variant: Map.clear()
MapDelete_All(m, name) == <<>>

\* Map.delete(name)
MapDelete(m, name) == SelectSeq(m, LAMBDA e : e.name # name)

\* variant: the filename is not required
ConfigError_NoCheck(config) ==
    IF config.type \in {"postgres", "sqlite"} THEN "none" ELSE "unsupported"

\* the error the switch on config.type throws, "none" when it constructs
ConfigError(config) ==
    CASE config.type = "postgres" -> "none"
      [] config.type = "sqlite" -> IF config.filename THEN "none" ELSE "missingFilename"
      [] OTHER -> "unsupported"

\* new PostgresAdapter(pgConfig) / new SQLiteAdapter(sqliteConfig)
NewAdapter(config) == [kind |-> config.type, config |-> config, disconnects |-> 0]

\* 'disconnect' in adapter: both adapter classes define the method
HasDisconnect(a) == a.kind \in {"postgres", "sqlite"}

NoConfig == [type |-> "none", filename |-> FALSE]

\* a factory call that returned: what it returned or threw, the registry and
\* the number of adapters constructed when it was called
Returned(op, name, config, ret, error, before, built) ==
    [op |-> op, name |-> name, config |-> config, ret |-> ret, error |-> error,
     before |-> before, built |-> built]

\* createAdapter(name, config)
CreateAdapter(name, config) ==
    /\ fpc = "idle"
    /\ fCalls < MaxFactoryCalls
    /\ fCalls' = fCalls + 1
    /\ IF MapHas(instances, name)
          THEN /\ fLast' = Returned("createAdapter", name, config, MapGet(instances, name),
                                    "none", instances, Len(constructed))
               /\ UNCHANGED <<instances, constructed>>
          ELSE IF ConfigError(config) # "none"
          THEN /\ fLast' = Returned("createAdapter", name, config, Undefined,
                                    ConfigError(config), instances, Len(constructed))
               /\ UNCHANGED <<instances, constructed>>
          ELSE /\ constructed' = Append(constructed, NewAdapter(config))
               /\ instances' = MapSet(instances, name, Len(constructed) + 1)
               /\ fLast' = Returned("createAdapter", name, config, Len(constructed) + 1,
                                    "none", instances, Len(constructed))
    /\ UNCHANGED <<esVars, migVars, lateVars, adVars, qVars, provVars, snapVars, fpc, fcur>>

\* getAdapter(name)
GetAdapter(name) ==
    /\ fpc = "idle"
    /\ fCalls < MaxFactoryCalls
    /\ fCalls' = fCalls + 1
    /\ fLast' = Returned("getAdapter", name, NoConfig, MapGet(instances, name), "none",
                         instances, Len(constructed))
    /\ UNCHANGED <<esVars, migVars, lateVars, adVars, qVars, provVars, snapVars, instances, constructed, fpc, fcur>>

\* the running call: the name removeAdapter is removing, the names the
\* iterator of removeAll has yet to yield, and the registry and the number of
\* adapters constructed when the call was made
Running(op, name, rest, before, built) ==
    [op |-> op, name |-> name, todo |-> rest, before |-> before, built |-> built]

\* adapter.disconnect() is invoked
Disconnect(adapters, id) == [adapters EXCEPT ![id].disconnects = @ + 1]

\* removeAdapter(name) up to its await: an unknown name returns at once
RemoveAdapter(name) ==
    /\ fpc = "idle"
    /\ fCalls < MaxFactoryCalls
    /\ fCalls' = fCalls + 1
    /\ LET id == MapGet(instances, name)
           done == Returned("removeAdapter", name, NoConfig, Undefined, "none",
                            instances, Len(constructed))
       IN  IF id = Undefined
              THEN /\ fLast' = done
                   /\ UNCHANGED <<instances, constructed, fpc, fcur>>
              ELSE IF HasDisconnect(constructed[id])
              THEN /\ constructed' = Disconnect(constructed, id)
                   /\ fpc' = "disconnect"
                   /\ fcur' = Running("removeAdapter", name, <<>>, instances, Len(constructed))
                   /\ UNCHANGED <<instances, fLast>>
              ELSE /\ instances' = MapDelete(instances, name)
                   /\ fLast' = done
                   /\ UNCHANGED <<constructed, fpc, fcur>>
    /\ UNCHANGED <<esVars, migVars, lateVars, adVars, qVars, provVars, snapVars>>

\* variant: an index into a list that shrinks, which skips the entry after
\* each removed one
IteratorRest_Skip(names) == IF Len(names) >= 2 THEN Tail(Tail(names)) ELSE <<>>

\* for (const [name] of this.instances): the entries the iterator yields
\* after the current one; deleting the current entry does not disturb it
IteratorRest(names) == Tail(names)

\* removeAll() up to its first await: removeAdapter of the first entry
RemoveAll ==
    /\ fpc = "idle"
    /\ fCalls < MaxFactoryCalls
    /\ fCalls' = fCalls + 1
    /\ LET names == [i \in 1..Len(instances) |-> instances[i].name]
       IN  IF names = <<>>
              THEN /\ fLast' = Returned("removeAll", "none", NoConfig, Undefined, "none",
                                        instances, Len(constructed))
                   /\ UNCHANGED <<constructed, fpc, fcur>>
              ELSE /\ constructed' = Disconnect(constructed, MapGet(instances, Head(names)))
                   /\ fpc' = "disconnect"
                   /\ fcur' = Running("removeAll", Head(names), IteratorRest(names),
                                      instances, Len(constructed))
                   /\ UNCHANGED fLast
    /\ UNCHANGED <<esVars, migVars, lateVars, adVars, qVars, provVars, snapVars, instances>>

\* disconnect() has resolved: removeAdapter deletes the entry and returns;
\* removeAll goes on with removeAdapter of the next entry, or returns.
\* (A disconnect() that rejects is the action DisconnectRejected.)
Disconnected ==
    /\ fpc = "disconnect"
    /\ instances' = MapDelete(instances, fcur.name)
    /\ IF fcur.op = "removeAll" /\ fcur.todo # <<>>
          THEN /\ constructed' = Disconnect(constructed, MapGet(instances', Head(fcur.todo)))
               /\ fcur' = [fcur EXCEPT !.name = Head(fcur.todo),
                                       !.todo = IteratorRest(fcur.todo)]
               /\ UNCHANGED <<fpc, fLast>>
          ELSE /\ fLast' = Returned(fcur.op, IF fcur.op = "removeAll" THEN "none" ELSE fcur.name,
                                    NoConfig, Undefined, "none", fcur.before, fcur.built)
               /\ fpc' = "idle"
               /\ fcur' = NoFactoryCall
               /\ UNCHANGED constructed
    /\ UNCHANGED <<esVars, migVars, lateVars, adVars, qVars, provVars, snapVars, fCalls>>

NextFactory ==
    \/ \E name \in Names, config \in Configs : CreateAdapter(name, config)
    \/ \E name \in Names : GetAdapter(name)
    \/ \E name \in Names : RemoveAdapter(name)
    \/ RemoveAll
    \/ Disconnected

SpecFactory == Init /\ [][NextFactory]_vars

\* ------------------------------------------------------------------------
\* Properties of the adapter factory
\* ------------------------------------------------------------------------
Registered(m, name) == \E i \in 1..Len(m) : m[i].name = name

\* the entries of the registry under the other names, in order
Others(m, name) == SelectSeq(m, LAMBDA e : e.name # name)

\* the step is a createAdapter call
CreateStep == fCalls' = fCalls + 1 /\ fpc' = "idle" /\ fLast'.op = "createAdapter"

\* C24: the registry never holds two entries with the same name, and a
\* createAdapter(name, c2) call made while name is registered returns the
\* adapter registered under name without an error, constructs nothing and
\* leaves the registry and every adapter (its configuration included) as
\* they were, whatever c2 is.
C24_IdempotentRegistration ==
    [][/\ \A i, j \in 1..Len(instances') :
              instances'[i].name = instances'[j].name => i = j
       /\ CreateStep =>
              \A i \in 1..Len(instances) :
                  instances[i].name = fLast'.name =>
                      /\ fLast'.ret = instances[i].id
                      /\ fLast'.error = "none"
                      /\ constructed' = constructed
                      /\ instances' = instances]_vars

\* createAdapter of a registered name with a configuration that is not the
\* registered adapter's, here one the switch would reject
C24_Witness ==
    /\ fpc = "idle"
    /\ fLast.op = "createAdapter"
    /\ Registered(fLast.before, fLast.name)
    /\ fLast.ret # Undefined
    /\ fLast.config.type = "mongodb"
    /\ constructed[fLast.ret].config # fLast.config
    /\ Len(instances) = 2

\* an unsupported type, or the sqlite type without a filename
BadConfig(config) ==
    \/ config.type \notin {"postgres", "sqlite"}
    \/ config.type = "sqlite" /\ ~config.filename

\* C25 as stated: for every name, createAdapter with an unsupported type or
\* with the sqlite type and no filename fails with an error, constructs no
\* adapter and leaves the registry unchanged.
C25_ConfigurationErrors ==
    (fpc = "idle" /\ fLast.op = "createAdapter" /\ BadConfig(fLast.config)) =>
        /\ fLast.error # "none"
        /\ Len(constructed) = fLast.built
        /\ instances = fLast.before

\* C25 amended: for every name that is not registered, createAdapter with an
\* unsupported type or with the sqlite type and no filename fails with an
\* error, constructs no adapter and leaves the registry unchanged.
C25_ConfigurationErrorsUnregistered ==
    ( /\ fpc = "idle"
      /\ fLast.op = "createAdapter"
      /\ BadConfig(fLast.config)
      /\ ~Registered(fLast.before, fLast.name) ) =>
        /\ fLast.error # "none"
        /\ Len(constructed) = fLast.built
        /\ instances = fLast.before

\* createAdapter of an unregistered name with the sqlite type and no
\* filename failed, with another adapter registered
C25_Witness ==
    /\ fpc = "idle"
    /\ fLast.op = "createAdapter"
    /\ fLast.config = [type |-> "sqlite", filename |-> FALSE]
    /\ ~Registered(fLast.before, fLast.name)
    /\ fLast.error = "missingFilename"
    /\ instances # <<>>

\* C26: removeAdapter(name) of a registered name invokes the adapter's
\* disconnect once and leaves the registry as it is until disconnect has
\* resolved, then forgets the name, so that getAdapter(name) returns
\* undefined; removeAdapter of a name that is not registered changes nothing
\* and invokes no disconnect; in both cases the entries under the other
\* names stay as they were; and no entry ever leaves the registry before the
\* disconnect of its adapter was invoked.
C26_RemoveAdapter ==
    [][/\ \A i \in 1..Len(instances) :
              ~Registered(instances', instances[i].name) =>
                  constructed[instances[i].id].disconnects >= 1
       /\ (fCalls' = fCalls + 1 /\ fcur'.op = "removeAdapter") =>
              /\ Registered(instances, fcur'.name)
              /\ instances' = instances
              /\ \A id \in 1..Len(constructed) :
                     constructed'[id].disconnects =
                         constructed[id].disconnects
                             + (IF [name |-> fcur'.name, id |-> id] \in Range(instances)
                                   THEN 1 ELSE 0)
       /\ (fpc = "disconnect" /\ fcur.op = "removeAdapter") =>
              /\ fpc' = "idle"
              /\ fLast'.op = "removeAdapter"
              /\ fLast'.name = fcur.name
              /\ ~Registered(instances', fcur.name)
              /\ Others(instances', fcur.name) = Others(instances, fcur.name)
       /\ (fCalls' = fCalls + 1 /\ fpc' = "idle" /\ fLast'.op = "removeAdapter") =>
              /\ ~Registered(instances, fLast'.name)
              /\ instances' = instances
              /\ constructed' = constructed
       /\ ( /\ fpc = "idle"
            /\ fLast.op = "removeAdapter"
            /\ fCalls' = fCalls + 1
            /\ fLast'.op = "getAdapter"
            /\ fLast'.name = fLast.name ) => fLast'.ret = Undefined]_vars

\* removeAdapter of a registered name has returned: its adapter was
\* disconnected and the other adapter is still registered
C26_Witness ==
    /\ fpc = "idle"
    /\ fLast.op = "removeAdapter"
    /\ Registered(fLast.before, fLast.name)
    /\ ~Registered(instances, fLast.name)
    /\ Len(instances) = 1
    /\ \E i \in 1..Len(fLast.before) :
           /\ fLast.before[i].name = fLast.name
           /\ constructed[fLast.before[i].id].disconnects = 1

\* C27: when removeAll() has returned, the registry is empty and the
\* disconnect of every adapter that was registered when it was called has
\* been invoked exactly once.
C27_RemoveAll ==
    (fpc = "idle" /\ fLast.op = "removeAll") =>
        /\ instances = <<>>
        /\ \A i \in 1..Len(fLast.before) :
               constructed[fLast.before[i].id].disconnects = 1

\* removeAll has returned after being called with two adapters registered
C27_Witness ==
    /\ fpc = "idle"
    /\ fLast.op = "removeAll"
    /\ Len(fLast.before) = 2
    /\ instances = <<>>

\* ------------------------------------------------------------------------
\* Lazy provisioning of an entity adapter under overlapping calls
\* ------------------------------------------------------------------------
MaxConcurrentOps == 2  \* adapter calls started in one behaviour

AdapterOps == {"save", "load", "delete", "query"}

\* a caller's position: the call it is in and the await the call is at
At(op, k, v, at) == [op |-> op, key |-> k, value |-> v, at |-> at]

\* a caller calls save, load, delete or query: the method calls initialize(),
\* which tests isInitialized before its first await and returns at once when
\* the flag is set
StartOperation(p, op, k, v) ==
    /\ opc[p].at = "idle"
    /\ opsStarted < MaxConcurrentOps
    /\ opsStarted' = opsStarted + 1
    /\ opc' = [opc EXCEPT ![p] =
                  At(op, k, v, IF aInitialized THEN "statement" ELSE "provisioning")]
    /\ UNCHANGED <<esVars, migVars, lateVars, adVars, qVars, facVars, snapVars, provisions>>

\* initialize() past its test: the provisioning statements (CREATE SCHEMA,
\* CREATE TABLE IF NOT EXISTS, the updated_at trigger) run, then the flag is set
Provision(p) ==
    /\ opc[p].at = "provisioning"
    /\ provisions' = provisions + 1
    /\ aInitialized' = TRUE
    /\ opc' = [opc EXCEPT ![p].at = "statement"]
    /\ UNCHANGED <<esVars, migVars, lateVars, qVars, facVars, snapVars, opsStarted, adapter, tableRows,
                   txWrites, snapshot, apc, pending, aLog, txStart, acquired, released>>

\* the statement of the call runs and the call returns
OperationStatement(p) ==
    /\ opc[p].at = "statement"
    /\ LET param == DataParam(adapter, opc[p].value)
       IN  tableRows' =
               CASE opc[p].op = "save" /\ ColumnAccepts(adapter, param) ->
                        Upsert(tableRows, opc[p].key, param)
                 [] opc[p].op = "delete" -> DeleteKey(tableRows, opc[p].key)
                 [] OTHER -> tableRows
    /\ opc' = [opc EXCEPT ![p] = At("none", "none", "none", "idle")]
    /\ UNCHANGED <<esVars, migVars, lateVars, qVars, facVars, snapVars, provisions, opsStarted, adapter,
                   aInitialized, txWrites, snapshot, apc, pending, aLog, txStart, acquired,
                   released>>

NextProvisioning ==
    \E p \in Callers :
        \/ \E op \in AdapterOps, k \in Keys, v \in Objects : StartOperation(p, op, k, v)
        \/ Provision(p)
        \/ OperationStatement(p)

SpecProvisioning == InitAdapters /\ [][NextProvisioning]_vars

\* C28: the provisioning statements of an adapter instance run at most
\* once, however its save, load, delete and query calls overlap.
C28_ProvisionedAtMostOnce == provisions <= 1

\* ------------------------------------------------------------------------
\* EventStore snapshots
\* ------------------------------------------------------------------------
MaxSnapshotCalls == 3   \* append, getSnapshot and saveSnapshot calls in one behaviour
MaxSnapBatch == 1       \* events in one append call made between snapshot calls

\* versions of the snapshots passed to saveSnapshot
SnapVersions == {0, 1}

\* Date.now() of the caller, put in StateSnapshot.timestamp
SnapTimestamps == {7}

\* the caller that makes the calls, one after another
SnapCaller == "p1"

\* StateSnapshot { state: unknown; version: number; timestamp: number }
StateSnapshot(state, version, timestamp) ==
    [found |-> TRUE, state |-> state, version |-> version, timestamp |-> timestamp]

StateSnapshots ==
    {StateSnapshot(st, v, t) : st \in Values, v \in SnapVersions, t \in SnapTimestamps}

\* the parameters of the saveSnapshot statement: [streamId, snapshot.version,
\* snapshot.state]; snapshot.timestamp is not among them
SnapshotParams(s, snap) ==
    [stream |-> s, version |-> snap.version, state |-> PrepareValue(snap.state)]

\* INSERT INTO snapshots (stream_id, version, state) ... ON CONFLICT (stream_id)
\* DO UPDATE SET version, state, created_at = CURRENT_TIMESTAMP
UpsertSnapshot(rows, params, now) ==
    {r \in rows : r.stream # params.stream}
        \cup {[stream |-> params.stream, version |-> params.version,
               state |-> params.state, created_at |-> now]}

\* variant: saving a snapshot compacts the log up to the snapshot's version
EventsAfterSaveSnapshot_Compact(rows, params) ==
    {r \in rows : r.stream # params.stream \/ r.version > params.version}

\* the saveSnapshot statement names the snapshots table only: the rows of the
\* events table after it
EventsAfterSaveSnapshot(rows, params) == rows

\* the columns of the getSnapshot statement: SELECT state, version
SnapshotColumns == {"state", "version"}

\* result.rows[0].<column>: a column that was not selected is undefined
RowField(row, column) == IF column \in SnapshotColumns THEN row[column] ELSE Undefined

\* what getSnapshot builds from the result rows
SnapshotOf(rows) ==
    IF rows = {} THEN NoSnapshot
    ELSE LET row == CHOOSE r \in rows : TRUE
         IN  [found |-> TRUE,
              state |-> ParseData(RowField(row, "state")),
              version |-> RowField(row, "version"),
              timestamp |-> RowField(row, "created_at")]

\* a snapshot call has returned
SnapshotReturned(op, s, arg, ret, error) ==
    /\ sLast' = [op |-> op, stream |-> s, arg |-> arg, ret |-> ret, error |-> error,
                 at |-> Len(calls)]
    /\ sCalls' = sCalls + 1
    /\ clock' = clock + 1

\* await this.initialize() of a snapshot call made while no other call is
\* running: the provisioning statements run on a client of the pool unless
\* the flag is set
SnapshotInitialize ==
    IF isInitialized
       THEN UNCHANGED <<isInitialized, provisionRuns, created>>
       ELSE /\ isInitialized' = TRUE
            /\ provisionRuns' = provisionRuns + 1
            /\ created' = IF created = {} THEN {NewClient} ELSE created

\* saveSnapshot(streamId, snapshot), awaited before the next call is made: no
\* client of the pool is inside a transaction then
SaveSnapshot(s, snap) ==
    /\ AllIdle
    /\ \A c \in Clients : txState[c] = "none"
    /\ Len(calls) + sCalls < MaxSnapshotCalls
    /\ SnapshotInitialize
    /\ LET params == SnapshotParams(s, snap)
       IN  IF ColumnAccepts("postgres", params.state)
              THEN /\ snapshots' = UpsertSnapshot(snapshots, params, clock)
                   /\ events' = EventsAfterSaveSnapshot(events, params)
                   /\ lastSaved' = [lastSaved EXCEPT ![s] = snap]
                   /\ SnapshotReturned("saveSnapshot", s, snap, NoSnapshot, "none")
              ELSE /\ UNCHANGED <<snapshots, events, lastSaved>>
                   /\ SnapshotReturned("saveSnapshot", s, snap, NoSnapshot, "invalid json")
    /\ UNCHANGED <<migVars, lateVars, adVars, qVars, facVars, provVars, eventsCollection, txState,
                   txRows, held, pc, cur, startVersion, idx, calls>>

\* getSnapshot(streamId), awaited before the next call is made
GetSnapshot(s) ==
    /\ AllIdle
    /\ \A c \in Clients : txState[c] = "none"
    /\ Len(calls) + sCalls < MaxSnapshotCalls
    /\ SnapshotInitialize
    /\ SnapshotReturned("getSnapshot", s, NoSnapshot,
                        SnapshotOf({r \in snapshots : r.stream = s}), "none")
    /\ UNCHANGED <<migVars, lateVars, adVars, qVars, facVars, provVars, eventsCollection, events,
                   txState, txRows, held, pc, cur, startVersion, idx, calls, snapshots,
                   lastSaved>>

\* appends and snapshot calls, each call awaited before the next is made
NextSnapshots ==
    \/ \E s \in Streams, snap \in StateSnapshots : SaveSnapshot(s, snap)
    \/ \E s \in Streams : GetSnapshot(s)
    \/ /\ AllIdle /\ Len(calls) + sCalls < MaxSnapshotCalls
       /\ \E s \in Streams, n \in 1..MaxSnapBatch : \E bad \in 0..n :
              StartAppend(SnapCaller, s, n, bad)
    \/ StepPg(SnapCaller)

SpecSnapshots == Init /\ [][NextSnapshots]_vars

SnapshotRows(s) == {r \in snapshots : r.stream = s}

\* C29: the store holds at most one snapshot per stream, and getSnapshot
\* returns the snapshot (state, version, timestamp) most recently saved for
\* the stream, or null when none was saved.
C29_SnapshotRoundTrip ==
    /\ \A s \in Streams : Cardinality(SnapshotRows(s)) <= 1
    /\ (sLast.op = "getSnapshot" /\ sLast.error = "none") =>
           sLast.ret = lastSaved[sLast.stream]

\* a step of saveSnapshot, and a step of append
SaveSnapshotStep == sCalls' = sCalls + 1 /\ sLast'.op = "saveSnapshot"
AppendStep == calls' # calls \/ pc' # pc \/ held' # held

\* C30: saveSnapshot leaves the events of every stream unchanged, and append
\* leaves the snapshot of every stream unchanged.
C30_SnapshotLogIndependence ==
    [][/\ SaveSnapshotStep =>
              \A s \in Streams :
                  /\ StreamRows(events', s) = StreamRows(events, s)
                  /\ \A c \in Clients : StreamRows(txRows'[c], s) = StreamRows(txRows[c], s)
       /\ AppendStep => \A s \in Streams : SnapshotRows(s)' = SnapshotRows(s)]_vars

\* a snapshot was saved for a stream that had events up to the snapshot's
\* version, and an append to that stream committed after it
C30_Witness ==
    /\ AllIdle
    /\ sLast.op = "saveSnapshot" /\ sLast.error = "none"
    /\ sLast.at = 1 /\ Len(calls) = 2
    /\ calls[1].status = "ok" /\ calls[2].status = "ok"
    /\ calls[1].stream = sLast.stream /\ calls[2].stream = sLast.stream
    /\ sLast.arg.version = 1
    /\ SnapshotRows(sLast.stream) # {}
    /\ Cardinality(StreamRows(events, sLast.stream)) = 2

\* C31: each stored snapshot's version is the version of an event of the
\* same stream; saveSnapshot never stores a snapshot whose version is beyond
\* the highest event version of the stream.
C31_SnapshotVersionValid ==
    \A r \in snapshots :
        /\ \E e \in events : e.stream = r.stream /\ e.version = r.version
        /\ r.version <= MaxVersion(events, r.stream)

\* ------------------------------------------------------------------------
\* Entity records: created_at and updated_at
\* ------------------------------------------------------------------------
MaxTimedOps == 4   \* save, delete and withTransaction steps in one behaviour
MaxTime == 3       \* largest reading of the database clock

\* a statement of the callback runs inside the transaction when it is given
\* the client; SQLiteAdapter has one connection, the one the transaction is on
TimedInTx(viaClient) == tTx.open /\ (tAdapter = "sqlite" \/ viaClient)

\* CURRENT_TIMESTAMP: in PostgreSQL the start time of the current
\* transaction (of the statement itself outside a transaction block), in
\* SQLite the time of the statement
CurrentTimestamp(inTx) == IF inTx /\ tAdapter # "sqlite" THEN tTx.start ELSE tNow

\* the row of the key as the statement finds it
RowSeen(k, inTx) == IF inTx /\ k \in tTx.written THEN tTx.writes[k] ELSE tRows[k]

\* INSERT (created_at and updated_at take their DEFAULT CURRENT_TIMESTAMP) or,
\* ON CONFLICT, DO UPDATE SET updated_at = CURRENT_TIMESTAMP, which the BEFORE
\* UPDATE trigger assigns again
UpsertRow(row, now) ==
    IF row.present THEN [row EXCEPT !.updated_at = now]
    ELSE [present |-> TRUE, created_at |-> now, updated_at |-> now]

\* INSERT OR REPLACE: the row of the key is deleted and a new row inserted,
\* both columns take their DEFAULT CURRENT_TIMESTAMP
ReplaceRow(row, now) == [present |-> TRUE, created_at |-> now, updated_at |-> now]

SavedRow(row, now) == IF tAdapter = "sqlite" THEN ReplaceRow(row, now) ELSE UpsertRow(row, now)

\* SERIALIZABLE (PostgresAdapter.withTransaction): a statement of the
\* transaction on a row changed since the transaction began is rejected
SerializationFailure(k, inTx) == inTx /\ tAdapter = "postgres" /\ k \in tOutside

\* a statement can be sent: outside a transaction, or from its callback; a
\* statement outside the transaction waits for a row the transaction wrote
CanSend(k, viaClient) ==
    /\ tAdapter # "none"
    /\ tOps < MaxTimedOps
    /\ viaClient => (tTx.open /\ tAdapter # "sqlite")
    /\ TimedInTx(viaClient) \/ k \notin tTx.written

\* the row is written: by the transaction, or committed at once
WriteRow(k, row, inTx) ==
    IF inTx
       THEN /\ tTx' = [tTx EXCEPT !.writes[k] = row, !.written = @ \cup {k}]
            /\ UNCHANGED <<tRows, tOutside>>
       ELSE /\ tRows' = [tRows EXCEPT ![k] = row]
            /\ tOutside' = IF tTx.open THEN tOutside \cup {k} ELSE tOutside
            /\ UNCHANGED tTx

\* new PostgresAdapter(config) / new SQLiteAdapter(config)
NewTimedAdapter(kind) ==
    /\ tAdapter = "none"
    /\ tAdapter' = kind
    /\ UNCHANGED <<esVars, migVars, adVars, qVars, facVars, provVars, snapVars, discVars,
                   tNow, tRows, tTx, tOutside, tLast, tOps>>

\* time passes
Tick ==
    /\ tNow < MaxTime
    /\ tNow' = tNow + 1
    /\ UNCHANGED <<esVars, migVars, adVars, qVars, facVars, provVars, snapVars, discVars,
                   tAdapter, tRows, tTx, tOutside, tLast, tOps>>

\* save(key, data, client?) of a value the column accepts
TimedSave(k, viaClient) ==
    LET inTx == TimedInTx(viaClient)
        seen == RowSeen(k, inTx)
        row == SavedRow(seen, CurrentTimestamp(inTx))
    IN  /\ CanSend(k, viaClient)
        /\ tOps' = tOps + 1
        /\ IF SerializationFailure(k, inTx)
              THEN /\ tTx' = NoTimedTx
                   /\ tOutside' = {}
                   /\ tLast' = [op |-> "rejected", key |-> k, existed |-> seen.present,
                                before |-> seen.updated_at, after |-> seen.updated_at,
                                viaClient |-> viaClient]
                   /\ UNCHANGED tRows
              ELSE /\ WriteRow(k, row, inTx)
                   /\ tLast' = [op |-> "save", key |-> k, existed |-> seen.present,
                                before |-> seen.updated_at, after |-> row.updated_at,
                                viaClient |-> viaClient]
        /\ UNCHANGED <<esVars, migVars, adVars, qVars, facVars, provVars, snapVars, discVars,
                       tAdapter, tNow>>

\* delete(key, client?)
TimedDelete(k, viaClient) ==
    LET inTx == TimedInTx(viaClient)
        seen == RowSeen(k, inTx)
    IN  /\ CanSend(k, viaClient)
        /\ tOps' = tOps + 1
        /\ IF SerializationFailure(k, inTx) /\ seen.present
              THEN /\ tTx' = NoTimedTx
                   /\ tOutside' = {}
                   /\ UNCHANGED tRows
              ELSE WriteRow(k, NoRow, inTx)
        /\ tLast' = [op |-> "delete", key |-> k, existed |-> seen.present,
                     before |-> seen.updated_at, after |-> 0, viaClient |-> viaClient]
        /\ UNCHANGED <<esVars, migVars, adVars, qVars, facVars, provVars, snapVars, discVars,
                       tAdapter, tNow>>

\* withTransaction(callback) up to the call of the callback: BEGIN
TimedBegin ==
    /\ tAdapter # "none"
    /\ ~tTx.open
    /\ tOps < MaxTimedOps
    /\ tOps' = tOps + 1
    /\ tTx' = [NoTimedTx EXCEPT !.open = TRUE, !.start = tNow]
    /\ tOutside' = {}
    /\ UNCHANGED <<esVars, migVars, adVars, qVars, facVars, provVars, snapVars, discVars,
                   tAdapter, tNow, tRows, tLast>>

\* the callback returns: COMMIT
TimedCommit ==
    /\ tTx.open
    /\ tRows' = [k \in Keys |-> IF k \in tTx.written THEN tTx.writes[k] ELSE tRows[k]]
    /\ tTx' = NoTimedTx
    /\ tOutside' = {}
    /\ UNCHANGED <<esVars, migVars, adVars, qVars, facVars, provVars, snapVars, discVars,
                   tAdapter, tNow, tLast, tOps>>

\* the callback throws: ROLLBACK
TimedRollback ==
    /\ tTx.open
    /\ tTx' = NoTimedTx
    /\ tOutside' = {}
    /\ UNCHANGED <<esVars, migVars, adVars, qVars, facVars, provVars, snapVars, discVars,
                   tAdapter, tNow, tRows, tLast, tOps>>

NextTimestamps ==
    \/ \E kind \in AdapterKinds : NewTimedAdapter(kind)
    \/ Tick
    \/ \E k \in Keys, viaClient \in BOOLEAN : TimedSave(k, viaClient)
    \/ \E k \in Keys, viaClient \in BOOLEAN : TimedDelete(k, viaClient)
    \/ TimedBegin
    \/ TimedCommit
    \/ TimedRollback

SpecTimestamps == Init /\ [][NextTimestamps]_vars

\* C32: every entity record has updated_at >= created_at, and a successful
\* save to an existing key sets its updated_at to a value not earlier than
\* the updated_at the row had.
C32_TimestampInvariant ==
    /\ \A k \in Keys : tRows[k].present => tRows[k].updated_at >= tRows[k].created_at
    /\ (tLast.op = "save" /\ tLast.existed) => tLast.after >= tLast.before

\* ------------------------------------------------------------------------
\* PostgresAdapter.disconnect
\* ------------------------------------------------------------------------
MaxDisconnects == 2   \* disconnect() calls in one behaviour

DisconnectDone == {"returned", "threw"}

\* the statements of the cleanup, in order, and the position after each
CleanupNext(at) ==
    CASE at = "rollback" -> "discard"
      [] at = "discard" -> "deallocate"
      [] OTHER -> "release"

CleanupPcs == {"rollback", "discard", "deallocate"}

\* the client pool.connect() resolves with: an idle client when there is
\* one, else a new connection while the pool is below its maximum
ConnectChoices ==
    IF \E c \in Clients : dClients[c] = "idle"
       THEN {c \in Clients : dClients[c] = "idle"}
       ELSE {c \in Clients : dClients[c] = "closed"}

\* an operation of the adapter in flight checks a client out of the pool
UseClient(c) ==
    /\ dpc = "idle"
    /\ dPool = "open"
    /\ c \in ConnectChoices
    /\ dClients' = [dClients EXCEPT ![c] = "busy"]
    /\ UNCHANGED <<esVars, migVars, adVars, qVars, facVars, provVars, snapVars, timeVars,
                   dPool, dHung, dpc, dHeld, dCalls>>

\* the operation's statement is answered and the client goes back to the
\* pool; a pool that is ending closes it
ReleaseClient(c) ==
    /\ dClients[c] = "busy"
    /\ c # dHeld
    /\ c \notin dHung
    /\ dClients' = [dClients EXCEPT ![c] = IF dPool = "open" THEN "idle" ELSE "closed"]
    /\ UNCHANGED <<esVars, migVars, adVars, qVars, facVars, provVars, snapVars, timeVars,
                   dPool, dHung, dpc, dHeld, dCalls>>

\* the server of a connection stops answering
Hang(c) ==
    /\ dpc = "idle"
    /\ dClients[c] # "closed"
    /\ c \notin dHung
    /\ dHung' = dHung \cup {c}
    /\ UNCHANGED <<esVars, migVars, adVars, qVars, facVars, provVars, snapVars, timeVars,
                   dPool, dClients, dpc, dHeld, dCalls>>

\* disconnect(): if (!this.pool) return
DisconnectCall ==
    /\ dpc \in {"idle"} \cup DisconnectDone
    /\ dCalls < MaxDisconnects
    /\ dCalls' = dCalls + 1
    /\ dpc' = IF dPool = "gone" THEN "returned" ELSE "connect"
    /\ UNCHANGED <<esVars, migVars, adVars, qVars, facVars, provVars, snapVars, timeVars,
                   dPool, dClients, dHung, dHeld>>

\* await this.pool.connect(): rejected by a pool that end() was called on,
\* pending while every client of the pool is checked out
DisconnectConnect ==
    /\ dpc = "connect"
    /\ IF dPool = "ending"
          THEN /\ dpc' = "threw"
               /\ UNCHANGED <<dClients, dHeld>>
          ELSE \E c \in ConnectChoices :
                 /\ dClients' = [dClients EXCEPT ![c] = "busy"]
                 /\ dHeld' = c
                 /\ dpc' = "rollback"
    /\ UNCHANGED <<esVars, migVars, adVars, qVars, facVars, provVars, snapVars, timeVars,
                   dPool, dHung, dCalls>>

\* await client.query('ROLLBACK' / 'DISCARD ALL' / 'DEALLOCATE ALL'): answered
\* by a connection that is not hung; an error is caught and ends the cleanup
CleanupQuery ==
    /\ dpc \in CleanupPcs
    /\ dHeld \notin dHung
    /\ \E rejected \in BOOLEAN : dpc' = IF rejected THEN "release" ELSE CleanupNext(dpc)
    /\ UNCHANGED <<esVars, migVars, adVars, qVars, facVars, provVars, snapVars, timeVars,
                   dPool, dClients, dHung, dHeld, dCalls>>

\* finally { client.release() }
CleanupRelease ==
    /\ dpc = "release"
    /\ dClients' = [dClients EXCEPT ![dHeld] = "idle"]
    /\ dHeld' = NoClient
    /\ dpc' = "sleep"
    /\ UNCHANGED <<esVars, migVars, adVars, qVars, facVars, provVars, snapVars, timeVars,
                   dPool, dHung, dCalls>>

\* the 100 ms timer fires; this.pool.end() is called, which closes the idle
\* clients, and the 5000 ms timer is started
StartEnd ==
    /\ dpc = "sleep"
    /\ dPool' = "ending"
    /\ dClients' = [c \in Clients |-> IF dClients[c] = "idle" THEN "closed" ELSE dClients[c]]
    /\ dpc' = "race"
    /\ UNCHANGED <<esVars, migVars, adVars, qVars, facVars, provVars, snapVars, timeVars,
                   dHung, dHeld, dCalls>>

\* pool.end() resolves once no client is checked out: isInitialized = false,
\* this.pool = undefined
EndResolves ==
    /\ dpc = "race"
    /\ \A c \in Clients : dClients[c] = "closed"
    /\ dPool' = "gone"
    /\ dpc' = "returned"
    /\ UNCHANGED <<esVars, migVars, adVars, qVars, facVars, provVars, snapVars, timeVars,
                   dClients, dHung, dHeld, dCalls>>

\* the 5000 ms timer fires first: Error('Pool end timeout') is thrown
EndTimeout ==
    /\ dpc = "race"
    /\ dpc' = "threw"
    /\ UNCHANGED <<esVars, migVars, adVars, qVars, facVars, provVars, snapVars, timeVars,
                   dPool, dClients, dHung, dHeld, dCalls>>

NextDisconnect ==
    \/ \E c \in Clients : UseClient(c)
    \/ \E c \in Clients : ReleaseClient(c)
    \/ \E c \in Clients : Hang(c)
    \/ DisconnectCall
    \/ DisconnectConnect
    \/ CleanupQuery
    \/ CleanupRelease
    \/ StartEnd
    \/ EndResolves
    \/ EndTimeout

\* timers fire, and a connection that is not hung answers
DisconnectFairness ==
    /\ WF_vars(DisconnectConnect)
    /\ WF_vars(CleanupQuery)
    /\ WF_vars(CleanupRelease)
    /\ WF_vars(StartEnd)
    /\ WF_vars(EndResolves \/ EndTimeout)
    /\ \A c \in Clients : WF_vars(ReleaseClient(c))

SpecDisconnect == Init /\ [][NextDisconnect]_vars /\ DisconnectFairness

\* C33: a call of disconnect() eventually returns or throws, whatever
\* connections are hung.
C33_BoundedShutdown == (dpc = "connect") ~> (dpc \in DisconnectDone)

\* ------------------------------------------------------------------------
\* Properties of down()
\* ------------------------------------------------------------------------
\* down() has returned and its last result is an error
DownFailed ==
    /\ rpc = "idle"
    /\ rop = "down"
    /\ results # <<>>
    /\ results[Len(results)].status = "error"

\* the slice down() computed from the records it read
Slice == ToRollback(appliedMigrations, steps)

\* C34: when down() returns after the down procedure of a migration threw,
\* the record of that migration is still in the table, no migration after
\* it in the slice was rolled back or attempted, and the error result of
\* that migration is the last of the returned list.
C34_DownFailFast ==
    DownFailed =>
        LET n == Len(results)
        IN  /\ results[n].id \in RecordIds(records)
            /\ \A k \in 1..(n - 1) : results[k].status = "success"
            /\ invoked = [k \in 1..n |-> results[k].id]
            /\ invoked = SubSeq(Slice, 1, n)
            /\ \A k \in (n + 1)..Len(Slice) : Slice[k] \in RecordIds(records)

\* down(2) stopped at the first migration of its slice: the second keeps
\* its record and its down was not invoked
C34_Witness ==
    /\ DownFailed
    /\ steps = 2
    /\ Slice = <<"m3", "m2">>
    /\ results = <<[id |-> "m3", status |-> "error"]>>
    /\ invoked = <<"m3">>
    /\ RecordIds(records) = Migrations

\* the records down() read that are no longer in the table
RolledBack_Records == RecordIds(Range(appliedMigrations)) \ RecordIds(records)

\* C35: down(steps) rolls back at most steps migrations, for every
\* steps >= 0: down(0) rolls back nothing, and down() on a table without
\* records returns an empty list and changes nothing.
C35_DownAtMostSteps ==
    (entry = "down" /\ rop = "down" /\ rpc \notin {"init", "ddl", "applied"}) =>
        /\ Len(invoked) <= steps
        /\ Cardinality(RolledBack_Records) <= steps
        /\ appliedMigrations = <<>> => (results = <<>> /\ records = {} /\ invoked = <<>>)

\* ------------------------------------------------------------------------
\* SQLiteAdapter: a save by another caller while withTransaction is open
\* ------------------------------------------------------------------------
\* save(key, data) called from outside the callback while the transaction is
\* open: the statement is prepared and run on this.db, the connection on
\* which withTransaction has executed BEGIN
OutsideSave(k, v) ==
    /\ adapter = "sqlite"
    /\ apc = "callback"
    /\ Len(aLog) < MaxAdapterOps - 1
    /\ aInitialized' = TRUE
    /\ txWrites' = [txWrites EXCEPT ![k] = DataParam(adapter, v)]
    /\ aLog' = Append(aLog, Entry("save", k, v, Null, "outside", "none", TRUE))
    /\ UNCHANGED <<esVars, migVars, restVars, adapter, tableRows, snapshot, apc, pending,
                   txStart, acquired, released>>

NextEmbedded ==
    \/ \E k \in Keys, v \in Values, viaClient \in BOOLEAN : Save(k, v, viaClient)
    \/ \E k \in Keys, viaClient \in BOOLEAN : Load(k, viaClient)
    \/ \E k \in Keys, viaClient \in BOOLEAN : Delete(k, viaClient)
    \/ WithTransaction
    \/ CallbackReturn
    \/ CallbackThrow
    \/ CatchBlock
    \/ \E k \in Keys, v \in Values : OutsideSave(k, v)

SpecEmbedded == InitAdapters /\ [][NextEmbedded]_vars

\* C36: a save issued outside the callback that completed while
\* withTransaction was open on an SQLiteAdapter is not undone when the
\* transaction rolls back: the key holds the saved value unless a later call
\* wrote it.
C36_EmbeddedIsolation ==
    (CallbackFailed /\ adapter = "sqlite") =>
        \A i \in CallbackCalls :
            ( /\ aLog[i].ctx = "outside"
              /\ \A j \in CallbackCalls : j > i => ~(aLog[j].wrote /\ aLog[j].key = aLog[i].key) )
            => Lookup(tableRows, aLog[i].key) = aLog[i].arg

\* ------------------------------------------------------------------------
\* Migration files that disappear between runner operations
\* ------------------------------------------------------------------------
MaxRemovals == 1   \* migration files removed in one behaviour

\* a migration file is deleted from the migrations directory (or no longer
\* exports a valid migration) while no operation runs
RemoveFile(m) ==
    LET Other(f) == f # m
    IN  /\ rpc = "idle"
        /\ \E k \in 1..Len(files) : files[k] = m
        /\ Len(files) > Cardinality(Migrations) - MaxRemovals
        /\ files' = SelectSeq(files, Other)
        /\ UNCHANGED <<esVars, adVars, restVars, mIsInitialized, records, schema, mTx, mCreated,
                       mHeld, rpc, rop, steps, appliedMigrations, todo, latestBatch, results,
                       invoked, upOk, statusResult, runs, entry, tableExists, dirExists>>

NextMigFiles ==
    \/ Up
    \/ \E n \in 0..MaxSteps : Down(n)
    \/ Reset
    \/ Status
    \/ RunnerStep
    \/ \E m \in Migrations : RemoveFile(m)

SpecMigFiles == InitMigrations /\ [][NextMigFiles]_vars

\* the ids of the slice whose migration down() did not find
Missing == {m \in Range(Slice) : m \notin Range(files)}

\* what down() leaves when it returns
DownSkipped ==
        /\ \A m \in Missing :
               /\ m \in RecordIds(records)
               /\ m \notin Range(invoked)
               /\ \A k \in 1..Len(results) : results[k].id # m
        /\ LET found == Discoverable(Slice)
               n == Len(results)
           IN  /\ n <= Len(found)
               /\ \A k \in 1..n : results[k].id = found[k]
               /\ \A k \in 1..n : results[k].status = "success" => found[k] \notin RecordIds(records)
               /\ (n < Len(found)) => (n > 0 /\ results[n].status = "error")

\* C37: when down() returns, every record of its slice whose migration is
\* not discoverable is still in the table, has no result entry and was not
\* invoked, and the other records of the slice were rolled back in the order
\* of the slice, up to the first error.
C37_DownSkipsMissing ==
    [][(rop' = "down" /\ rpc # "idle" /\ rpc' = "idle") => DownSkipped']_vars

\* down(2) found the latest of its two records missing, skipped it and
\* rolled the other one back
C37_Witness ==
    /\ rop = "down" /\ rpc = "idle"
    /\ steps = 2
    /\ Slice = <<"m3", "m2">>
    /\ Missing = {"m3"}
    /\ results = <<[id |-> "m2", status |-> "success"]>>
    /\ RecordIds(records) = {"m1", "m3"}

\* ------------------------------------------------------------------------
\* Adapter factory: a disconnect() that rejects
\* ------------------------------------------------------------------------
\* variant: the entry is deleted in a finally block
RegistryAfterRejection_Delete(m, name) == MapDelete(m, name)

\* the registry when `await adapter.disconnect()` has thrown:
\* this.instances.delete(name) is not reached
RegistryAfterRejection(m, name) == m

\* disconnect() has rejected: removeAdapter throws the error, and removeAll,
\* which awaits removeAdapter inside its loop without a try block, throws it
\* as well
DisconnectRejected ==
    /\ fpc = "disconnect"
    /\ instances' = RegistryAfterRejection(instances, fcur.name)
    /\ fLast' = Returned(fcur.op, fcur.name, NoConfig, Undefined, "disconnectFailed",
                         fcur.before, fcur.built)
    /\ fpc' = "idle"
    /\ fcur' = NoFactoryCall
    /\ UNCHANGED <<esVars, migVars, lateVars, adVars, qVars, provVars, snapVars, fCalls,
                   constructed>>

NextFactoryFailing ==
    \/ \E name \in Names, config \in Configs : CreateAdapter(name, config)
    \/ \E name \in Names : GetAdapter(name)
    \/ \E name \in Names : RemoveAdapter(name)
    \/ RemoveAll
    \/ Disconnected
    \/ DisconnectRejected

SpecFactoryFailing == Init /\ [][NextFactoryFailing]_vars

\* the step on which a call ends with the error of disconnect()
RejectionStep == fpc = "disconnect" /\ fpc' = "idle" /\ fLast'.error = "disconnectFailed"

\* C38: when the disconnect of the adapter being removed fails, the call
\* (removeAdapter or removeAll) ends with that error, the adapter stays
\* registered under its name, and so do the adapters removeAll had not
\* visited yet; disconnect is invoked on no adapter other than the one being
\* visited.
C38_DisconnectFailure ==
    [][/\ RejectionStep =>
              /\ fLast'.op = fcur.op
              /\ fLast'.name = fcur.name
              /\ Registered(instances', fcur.name)
              /\ MapGet(instances', fcur.name) = MapGet(fcur.before, fcur.name)
              /\ \A k \in 1..Len(fcur.todo) :
                     /\ Registered(instances', fcur.todo[k])
                     /\ MapGet(instances', fcur.todo[k]) = MapGet(fcur.before, fcur.todo[k])
              /\ constructed' = constructed
       /\ \A id \in 1..Len(constructed) :
              constructed'[id].disconnects # constructed[id].disconnects =>
                  /\ fpc' = "disconnect"
                  /\ id = MapGet(fcur'.before, fcur'.name)
                  /\ fcur'.name \notin Range(fcur'.todo)
                  /\ constructed'[id].disconnects = constructed[id].disconnects + 1]_vars

\* removeAll failed on the first of two registered adapters: both are still
\* registered and the disconnect of the second was not invoked
C38_Witness ==
    /\ fpc = "idle"
    /\ fLast.op = "removeAll"
    /\ fLast.error = "disconnectFailed"
    /\ Len(fLast.before) = 2
    /\ fLast.name = fLast.before[1].name
    /\ instances = fLast.before
    /\ constructed[fLast.before[1].id].disconnects = 1
    /\ constructed[fLast.before[2].id].disconnects = 0

====
